---- MODULE Spec2Model ----
(***************************************************************************)
(* A model of lsfnd: ls / lsFiles / lsDirs, synchronous and asynchronous.  *)
(*                                                                         *)
(* Strings are sequences of character codes (ASCII), so that comparison,   *)
(* sorting, trimming, path arithmetic and re-encoding are computed and not *)
(* assumed.  The host is a POSIX host (os.platform() # 'win32').           *)
(***************************************************************************)
EXTENDS Integers, Sequences, FiniteSets, TLC

(***************************************************************************)
(* String literals used by the code and by the inputs.                     *)
(***************************************************************************)
S_slash     == <<47>>                          \* "/"
S_dot       == <<46>>                          \* "."
S_dotdot    == <<46, 46>>                      \* ".."
S_file      == <<102, 105, 108, 101, 58>>      \* "file:"
S_file2     == <<102, 105, 108, 101, 58, 47, 47>>       \* "file://"
S_file3     == <<102, 105, 108, 101, 58, 47, 47, 47>>   \* "file:///"
S_localhost == <<108, 111, 99, 97, 108, 104, 111, 115, 116>>  \* "localhost"
S_utf8      == <<117, 116, 102, 56>>           \* "utf8"
S_hex       == <<104, 101, 120>>               \* "hex"
S_base64    == <<98, 97, 115, 101, 54, 52>>    \* "base64"

(* F(v), with v evaluated once.  (Definitions are expanded where they are  *)
(* used; binding the value keeps a result that is used again from being    *)
(* computed again.)                                                        *)
With(v, F(_)) == CHOOSE y \in {F(x) : x \in {v}} : TRUE

IsLetter(c) == (c >= 65 /\ c <= 90) \/ (c >= 97 /\ c <= 122)

Max2(a, b) == IF a >= b THEN a ELSE b

StartsWith(s, p) ==
  /\ Len(s) >= Len(p)
  /\ \A i \in 1..Len(p) : s[i] = p[i]

Drop(s, n) == SubSeq(s, n + 1, Len(s))

RECURSIVE Flatten(_)
Flatten(ss) == IF ss = <<>> THEN <<>> ELSE Head(ss) \o Flatten(Tail(ss))

(* String.prototype.trim, for the blank character. *)
RECURSIVE TrimLeft(_)
TrimLeft(s) == IF s # <<>> /\ Head(s) = 32 THEN TrimLeft(Tail(s)) ELSE s

RECURSIVE TrimRight(_)
TrimRight(s) ==
  IF s # <<>> /\ s[Len(s)] = 32 THEN TrimRight(SubSeq(s, 1, Len(s) - 1)) ELSE s

Trim(s) == TrimRight(TrimLeft(s))

(* The order of Array.prototype.sort() without a comparator: by code unit, *)
(* a proper prefix first.                                                  *)
RECURSIVE StrLess(_, _)
StrLess(a, b) ==
  IF b = <<>> THEN FALSE
  ELSE IF a = <<>> THEN TRUE
  ELSE IF Head(a) # Head(b) THEN Head(a) < Head(b)
  ELSE StrLess(Tail(a), Tail(b))

StrLeq(a, b) == a = b \/ StrLess(a, b)

RECURSIVE Insert(_, _)
Insert(x, sorted) ==
  IF sorted = <<>> THEN <<x>>
  ELSE IF StrLeq(x, Head(sorted)) THEN <<x>> \o sorted
  ELSE <<Head(sorted)>> \o Insert(x, Tail(sorted))

RECURSIVE Sort(_)
Sort(xs) == IF xs = <<>> THEN <<>> ELSE Insert(Head(xs), Sort(Tail(xs)))

IsSorted(xs) == \A i \in 1..(Len(xs) - 1) : StrLeq(xs[i], xs[i + 1])

(***************************************************************************)
(* node:path on a POSIX host.                                              *)
(***************************************************************************)
RECURSIVE SplitAcc(_, _, _)
SplitAcc(s, cur, acc) ==
  IF s = <<>> THEN (IF cur = <<>> THEN acc ELSE Append(acc, cur))
  ELSE IF Head(s) = 47
       THEN SplitAcc(Tail(s), <<>>, IF cur = <<>> THEN acc ELSE Append(acc, cur))
       ELSE SplitAcc(Tail(s), Append(cur, Head(s)), acc)

(* The non-empty segments between the separators. *)
Split(s) == SplitAcc(s, <<>>, <<>>)

RECURSIVE JoinSegs(_)
JoinSegs(segs) ==
  IF segs = <<>> THEN <<>>
  ELSE IF Len(segs) = 1 THEN Head(segs)
  ELSE Head(segs) \o S_slash \o JoinSegs(Tail(segs))

(* normalizeString: "." is dropped, ".." removes the segment before it; a   *)
(* relative path keeps the ".." it cannot resolve.                          *)
RECURSIVE NormSegs(_, _, _)
NormSegs(segs, acc, allowAbove) ==
  IF segs = <<>> THEN acc
  ELSE LET h == Head(segs) IN
       IF h = S_dot THEN NormSegs(Tail(segs), acc, allowAbove)
       ELSE IF h = S_dotdot
            THEN IF acc # <<>> /\ acc[Len(acc)] # S_dotdot
                 THEN NormSegs(Tail(segs), SubSeq(acc, 1, Len(acc) - 1), allowAbove)
                 ELSE IF allowAbove
                      THEN NormSegs(Tail(segs), Append(acc, h), allowAbove)
                      ELSE NormSegs(Tail(segs), acc, allowAbove)
            ELSE NormSegs(Tail(segs), Append(acc, h), allowAbove)

isAbsolute(p) == p # <<>> /\ p[1] = 47

normalize(p) ==
  IF p = <<>> THEN S_dot
  ELSE LET abs   == isAbsolute(p)
           trail == p[Len(p)] = 47
           body  == JoinSegs(NormSegs(Split(p), <<>>, ~abs))
       IN  IF body = <<>>
           THEN (IF abs THEN S_slash ELSE IF trail THEN <<46, 47>> ELSE S_dot)
           ELSE (IF abs THEN S_slash ELSE <<>>) \o body
                \o (IF trail THEN S_slash ELSE <<>>)

(* path.join of two parts: the non-empty ones, separated, then normalized. *)
join(a, b) ==
  IF a = <<>> /\ b = <<>> THEN S_dot
  ELSE IF a = <<>> THEN normalize(b)
  ELSE IF b = <<>> THEN normalize(a)
  ELSE normalize(a \o S_slash \o b)

(* path.posix.resolve(p) against the working directory wd: absolute,       *)
(* normalized, without a trailing separator.                               *)
resolve(wd, p) ==
  LET full == IF isAbsolute(p) THEN p ELSE wd \o S_slash \o p
  IN  S_slash \o JoinSegs(NormSegs(Split(full), <<>>, FALSE))

RECURSIVE CommonLen(_, _)
CommonLen(a, b) ==
  IF a = <<>> \/ b = <<>> \/ Head(a) # Head(b) THEN 0
  ELSE 1 + CommonLen(Tail(a), Tail(b))

(* path.relative(from, to), both resolved against wd first. *)
relative(wd, from, to) ==
  LET f == Split(resolve(wd, from))
      t == Split(resolve(wd, to))
      n == CommonLen(f, t)
      ups == [i \in 1..(Len(f) - n) |-> S_dotdot]
  IN  JoinSegs(ups \o Drop(t, n))

basename(p) ==
  LET segs == Split(p) IN IF segs = <<>> THEN <<>> ELSE segs[Len(segs)]

(***************************************************************************)
(* Buffer encodings.  Names hold ASCII characters only, so the utf8 form   *)
(* of a byte sequence is the sequence itself.                              *)
(***************************************************************************)
KnownEncodings == {S_utf8, S_hex, S_base64}

(* Buffer.isEncoding *)
isEncoding(e) == e \in KnownEncodings

HexDigit(d) == IF d < 10 THEN 48 + d ELSE 87 + d

HexValue(c) == IF c >= 97 THEN c - 87 ELSE c - 48

RECURSIVE HexEncode(_)
HexEncode(bs) ==
  IF bs = <<>> THEN <<>>
  ELSE <<HexDigit(Head(bs) \div 16), HexDigit(Head(bs) % 16)>> \o HexEncode(Tail(bs))

RECURSIVE HexDecode(_)
HexDecode(s) ==
  IF Len(s) < 2 THEN <<>>
  ELSE <<HexValue(s[1]) * 16 + HexValue(s[2])>> \o HexDecode(Drop(s, 2))

(* The base64 alphabet: A-Z, a-z, 0-9, +, / *)
B64Char(v) ==
  IF v < 26 THEN 65 + v
  ELSE IF v < 52 THEN 97 + (v - 26)
  ELSE IF v < 62 THEN 48 + (v - 52)
  ELSE IF v = 62 THEN 43 ELSE 47

B64Value(c) ==
  IF c >= 97 THEN c - 97 + 26
  ELSE IF c >= 65 THEN c - 65
  ELSE IF c >= 48 THEN c - 48 + 52
  ELSE IF c = 43 THEN 62 ELSE 63

RECURSIVE Base64Encode(_)
Base64Encode(bs) ==
  IF bs = <<>> THEN <<>>
  ELSE IF Len(bs) = 1
  THEN <<B64Char(bs[1] \div 4), B64Char((bs[1] % 4) * 16), 61, 61>>
  ELSE IF Len(bs) = 2
  THEN <<B64Char(bs[1] \div 4),
         B64Char((bs[1] % 4) * 16 + bs[2] \div 16),
         B64Char((bs[2] % 16) * 4), 61>>
  ELSE <<B64Char(bs[1] \div 4),
         B64Char((bs[1] % 4) * 16 + bs[2] \div 16),
         B64Char((bs[2] % 16) * 4 + bs[3] \div 64),
         B64Char(bs[3] % 64)>> \o Base64Encode(Drop(bs, 3))

RECURSIVE Base64Decode(_)
Base64Decode(s) ==
  IF Len(s) < 4 THEN <<>>
  ELSE LET a == B64Value(s[1])
           b == B64Value(s[2])
           c == B64Value(s[3])
           d == B64Value(s[4])
       IN  IF s[3] = 61 THEN <<a * 4 + b \div 16>>
           ELSE IF s[4] = 61 THEN <<a * 4 + b \div 16, (b % 16) * 16 + c \div 4>>
           ELSE <<a * 4 + b \div 16, (b % 16) * 16 + c \div 4, (c % 4) * 64 + d>>
                \o Base64Decode(Drop(s, 4))

(* Buffer.from(v, enc) *)
BufferFrom(v, enc) ==
  IF enc = S_hex THEN HexDecode(v)
  ELSE IF enc = S_base64 THEN Base64Decode(v)
  ELSE v

(* buf.toString(enc) *)
BufferToString(bs, enc) ==
  IF enc = S_hex THEN HexEncode(bs)
  ELSE IF enc = S_base64 THEN Base64Encode(bs)
  ELSE bs

(* encodeTo throws a TypeError when one of the two encodings is unknown. *)
encodeToThrows(from, to) == ~isEncoding(from) \/ ~isEncoding(to)

(* encodeTo on an array of strings, both encodings known. *)
encodeTo(val, from, to) ==
  [i \in 1..Len(val) |-> BufferToString(BufferFrom(val[i], from), to)]

(***************************************************************************)
(* JavaScript values, tagged by kind.                                      *)
(***************************************************************************)
Undef     == [t |-> "undefined"]
Null      == [t |-> "null"]
Str(s)    == [t |-> "string", v |-> s]
Num(n)    == [t |-> "number", n |-> n]
Bool(b)   == [t |-> "boolean", b |-> b]
Arr       == [t |-> "array"]
Fn        == [t |-> "function"]
Url(proto, host, pathname) ==
  [t |-> "url", protocol |-> proto, host |-> host, pathname |-> pathname]
(* A RegExp object: id names the object (its lastIndex lives in the state), *)
(* kind "any" is /.+/, kind "lit" is a pattern of plain characters.         *)
Re(id, kind, lit, global) ==
  [t |-> "regexp", id |-> id, kind |-> kind, lit |-> lit, global |-> global]

IsNullish(v) == v.t \in {"undefined", "null"}

(* ToBoolean *)
Truthy(v) ==
  CASE v.t \in {"undefined", "null"} -> FALSE
    [] v.t = "string"  -> v.v # <<>>
    [] v.t = "number"  -> v.n # 0
    [] v.t = "boolean" -> v.b
    [] OTHER -> TRUE

(* a === b, for the values compared in the code: primitives by value *)
StrictEq(a, b) ==
  /\ a.t = b.t
  /\ (a.t = "string" => a.v = b.v)
  /\ (a.t = "number" => a.n = b.n)
  /\ (a.t = "boolean" => a.b = b.b)

(* a ?? b *)
Coalesce(a, b) == IF IsNullish(a) THEN b ELSE a

(* What a thrown error is, for the caller: its class. *)
Throw(cls) == [err |-> cls]
NoErr      == "none"

(***************************************************************************)
(* RegExp.prototype.test.  A global pattern starts at its lastIndex and    *)
(* leaves the end of the match (or 0) behind; any other pattern neither    *)
(* reads nor writes lastIndex.                                             *)
(***************************************************************************)
MatchesAt(lit, s, i) ==
  /\ i + Len(lit) <= Len(s)
  /\ \A k \in 1..Len(lit) : s[i + k] = lit[k]

(* The least 0-based index >= from where lit occurs in s, or -1. *)
Find(lit, s, from) ==
  LET hits == {i \in from..Len(s) : MatchesAt(lit, s, i)}
  IN  IF hits = {} THEN -1 ELSE CHOOSE i \in hits : \A j \in hits : i <= j

(* [found, lastIndex] of re.test(s) when re.lastIndex = li *)
RegExpTest(re, s, li) ==
  LET from == IF re.global THEN li ELSE 0 IN
  IF from > Len(s) THEN [found |-> FALSE, lastIndex |-> IF re.global THEN 0 ELSE li]
  ELSE IF re.kind = "any"
  THEN IF from < Len(s)
       THEN [found |-> TRUE, lastIndex |-> IF re.global THEN Len(s) ELSE li]
       ELSE [found |-> FALSE, lastIndex |-> IF re.global THEN 0 ELSE li]
  ELSE LET i == Find(re.lit, s, from) IN
       IF i < 0 THEN [found |-> FALSE, lastIndex |-> IF re.global THEN 0 ELSE li]
       ELSE [found |-> TRUE,
             lastIndex |-> IF re.global THEN i + Len(re.lit) ELSE li]

(* new RegExp(src) fails for an unbalanced "(". *)
Compiles(src) == \A i \in 1..Len(src) : src[i] # 40

(* resolveMatchExclude: a string is compiled (no flags), a RegExp is kept. *)
resolveMatchExclude(val) ==
  IF val.t = "string" THEN Re("fresh", "lit", val.v, FALSE) ELSE val

(***************************************************************************)
(* constants.ts and utils.ts                                               *)
(***************************************************************************)
(* FILE_URL_PATTERN = /^file:\/\/\/?(?:[A-Za-z]:)?(?:\/[^\s\\]+)*(?:\/)?/   *)
(* is anchored at the start only and everything after "file://" is         *)
(* optional: it tests positive exactly on the strings starting "file://".  *)
FILE_URL_PATTERN(p) == StartsWith(p, S_file2)

IsSep(c) == c \in {92, 47}

(* The characters a segment of WIN32_PATH_PATTERN excludes: \ / : * ? " < > | CR LF *)
Win32Excluded == {92, 47, 58, 42, 63, 34, 60, 62, 124, 13, 10}

(* (?:[^...]+(?:\\|\/))*[^...]*$ : every separator ends a non-empty segment *)
RECURSIVE Win32Tail(_, _)
Win32Tail(s, segEmpty) ==
  IF s = <<>> THEN TRUE
  ELSE IF IsSep(Head(s)) THEN ~segEmpty /\ Win32Tail(Tail(s), TRUE)
  ELSE IF Head(s) \in Win32Excluded THEN FALSE
  ELSE Win32Tail(Tail(s), FALSE)

(* WIN32_PATH_PATTERN = /^[A-Za-z]:?(?:\\|\/)(?:[^...]+(?:\\|\/))*[^...]*$/ *)
WIN32_PATH_PATTERN(p) ==
  /\ Len(p) >= 2
  /\ IsLetter(p[1])
  /\ LET r == IF p[2] = 58 THEN Drop(p, 2) ELSE Drop(p, 1)
     IN  r # <<>> /\ IsSep(r[1]) /\ Win32Tail(Tail(r), TRUE)

isWin32Path(p) ==
  LET q == normalize(Trim(p)) IN q # <<>> /\ WIN32_PATH_PATTERN(q)

(* /^[a-zA-Z]+:/ *)
LooksLikeScheme(s) ==
  \E n \in 1..(Len(s) - 1) :
    /\ \A i \in 1..n : IsLetter(s[i])
    /\ s[n + 1] = 58

(* Percent-encoding of URL paths.  decodeURIComponent refuses a "%" that   *)
(* is not followed by two hex digits (URIError: URI malformed); the octets *)
(* here are ASCII, others would have to form UTF-8.                        *)
IsHexChar(c) == c \in (48..57) \cup (65..70) \cup (97..102)

HexCharValue(c) == IF c >= 97 THEN c - 87 ELSE IF c >= 65 THEN c - 55 ELSE c - 48

UpperHexDigit(d) == IF d < 10 THEN 48 + d ELSE 55 + d

WellFormedPercent(s) ==
  \A i \in 1..Len(s) :
    s[i] = 37 => /\ i + 2 <= Len(s)
                 /\ IsHexChar(s[i + 1]) /\ IsHexChar(s[i + 2])
                 /\ 16 * HexCharValue(s[i + 1]) + HexCharValue(s[i + 2]) < 128

RECURSIVE PercentDecode(_)
PercentDecode(s) ==
  IF s = <<>> THEN <<>>
  ELSE IF Head(s) = 37
  THEN <<16 * HexCharValue(s[2]) + HexCharValue(s[3])>> \o PercentDecode(Drop(s, 3))
  ELSE <<Head(s)>> \o PercentDecode(Tail(s))

RECURSIVE PercentEncode(_, _)
PercentEncode(s, chars) ==
  IF s = <<>> THEN <<>>
  ELSE (IF Head(s) \in chars
        THEN <<37, UpperHexDigit(Head(s) \div 16), UpperHexDigit(Head(s) % 16)>>
        ELSE <<Head(s)>>) \o PercentEncode(Tail(s), chars)

(* "%2F" or "%2f" in s *)
HasEncodedSlash(s) ==
  \E i \in 1..(Len(s) - 2) : s[i] = 37 /\ s[i + 1] = 50 /\ s[i + 2] \in {70, 102}

(* new URL(p) for a string starting "file://": the host runs to the next   *)
(* "/", "localhost" is the empty host, dot segments are resolved, a blank  *)
(* in the path is percent-encoded.                                         *)
ParseFileURL(p) ==
  LET rest  == Drop(p, Len(S_file2))
      cut   == Find(S_slash, rest, 0)
      host  == IF cut < 0 THEN rest ELSE SubSeq(rest, 1, cut)
      pname == IF cut < 0 THEN S_slash
               ELSE PercentEncode(normalize(Drop(rest, cut)), {32})
  IN  Url(S_file, IF host = S_localhost THEN <<>> ELSE host, pname)

(* A fileURLToPath that hands the pathname over undecoded: the fault the   *)
(* equivalence of a path and its URL has to tell from the code.            *)
fileURLToPathRaw(u) ==
  IF u.host # <<>> THEN [err |-> "TypeError", v |-> <<>>]
  ELSE [err |-> NoErr, v |-> u.pathname]

(* url.fileURLToPath on a POSIX host: a file URL with a host is refused    *)
(* with a TypeError (ERR_INVALID_FILE_URL_HOST), one with an encoded "/"   *)
(* too (ERR_INVALID_FILE_URL_PATH); the path is the decoded pathname.      *)
fileURLToPath(u) ==
  IF u.host # <<>> \/ HasEncodedSlash(u.pathname) THEN [err |-> "TypeError", v |-> <<>>]
  ELSE IF ~WellFormedPercent(u.pathname) THEN [err |-> "URIError", v |-> <<>>]
  ELSE [err |-> NoErr, v |-> PercentDecode(u.pathname)]

(* /^file:(?:\/\/\/?)$/ *)
IsBareFileURL(p) == p = S_file2 \/ p = S_file3

(* A resolveFileURL that lets every string through: the fault the scheme   *)
(* check has to tell from the code.                                        *)
resolveFileURLLax(p) ==
  IF FILE_URL_PATTERN(p)
  THEN IF IsBareFileURL(p) THEN [err |-> NoErr, v |-> S_slash]
       ELSE fileURLToPath(ParseFileURL(p))
  ELSE [err |-> NoErr, v |-> p]

resolveFileURL(p) ==
  IF FILE_URL_PATTERN(p)
  THEN IF IsBareFileURL(p) THEN [err |-> NoErr, v |-> S_slash]
       ELSE fileURLToPath(ParseFileURL(p))
  ELSE IF isWin32Path(p) \/ ~StartsWith(p, S_file)
       THEN [err |-> "URIError", v |-> <<>>]
       ELSE [err |-> NoErr, v |-> p]

(* checkType: strict equality with one of the valid types, else TypeError *)
checkType(type, validTypes) ==
  \E i \in 1..Len(validTypes) : StrictEq(type, validTypes[i])

(* enum lsTypes, with the reverse mapping TypeScript compiles in. *)
LS_A == 1
LS_D == 2
LS_F == 4

S_LS_A == <<76, 83, 95, 65>>   \* "LS_A"
S_LS_D == <<76, 83, 95, 68>>   \* "LS_D"
S_LS_F == <<76, 83, 95, 70>>   \* "LS_F"

(* String(n) for a one-digit number *)
DigitString(n) == <<48 + n>>

(* Object.keys(lsTypes): the numeric keys first *)
lsTypesKeys ==
  << Str(DigitString(LS_A)), Str(DigitString(LS_D)), Str(DigitString(LS_F)),
     Str(S_LS_A), Str(S_LS_D), Str(S_LS_F) >>

(* Object.values(lsTypes), in the order of the keys *)
lsTypesValuesList ==
  << Str(S_LS_A), Str(S_LS_D), Str(S_LS_F), Num(LS_A), Num(LS_D), Num(LS_F) >>

(* lsTypesValues[String(n)]: the name of the enum member n *)
lsTypesValues(key) ==
  IF key = DigitString(LS_A) THEN Str(S_LS_A)
  ELSE IF key = DigitString(LS_D) THEN Str(S_LS_D)
  ELSE IF key = DigitString(LS_F) THEN Str(S_LS_F)
  ELSE Undef

(* The object defaultLsOptions as built when the module is loaded, wd      *)
(* being process.cwd() at that moment.                                     *)
MakeDefaultLsOptions(wd) ==
  [ encoding  |-> Str(S_utf8),
    recursive |-> Bool(FALSE),
    match     |-> Re("default", "any", <<>>, FALSE),
    exclude   |-> Undef,
    rootDir   |-> Str(wd),
    absolute  |-> Bool(FALSE),
    basename  |-> Bool(FALSE) ]

Field(o, name) == IF o.t = "object" THEN o[name] ELSE Undef

(* The object literal of resolveOptions (lines 219-227), options being an  *)
(* object: every field of options that is not null or undefined, the       *)
(* default for the others; the encoding trimmed.                           *)
MergedOptions(options, defaults) ==
  LET enc == Field(options, "encoding") IN
  [ encoding  |-> IF IsNullish(enc) THEN defaults.encoding ELSE Str(Trim(enc.v)),
    recursive |-> Coalesce(Field(options, "recursive"), defaults.recursive),
    match     |-> Coalesce(Field(options, "match"), defaults.match),
    exclude   |-> Coalesce(Field(options, "exclude"), defaults.exclude),
    rootDir   |-> Coalesce(Field(options, "rootDir"), defaults.rootDir),
    absolute  |-> Coalesce(Field(options, "absolute"), defaults.absolute),
    basename  |-> Coalesce(Field(options, "basename"), defaults.basename) ]

(* encoding?.trim() on a value that is not a string calls something that   *)
(* is no function: a TypeError.                                            *)
TrimThrows(options) ==
  ~IsNullish(Field(options, "encoding")) /\ Field(options, "encoding").t # "string"

(* resolveOptions writing into defaultLsOptions itself and returning that  *)
(* object: the fault the copies guard against.                             *)
resolveOptionsInPlace(options, defaults) ==
  IF options.t = "regexp"
  THEN [err |-> NoErr, v |-> [defaults EXCEPT !.match = options], shared |-> TRUE, own |-> FALSE]
  ELSE IF ~Truthy(options) \/ options.t \notin {"object", "array", "url"}
  THEN [err |-> NoErr, v |-> defaults, shared |-> TRUE, own |-> FALSE]
  ELSE IF TrimThrows(options)
  THEN [err |-> "TypeError", v |-> defaults, shared |-> FALSE, own |-> FALSE]
  ELSE [err |-> NoErr, v |-> MergedOptions(options, defaults), shared |-> TRUE, own |-> FALSE]

(* resolveOptions without its RegExp branch: a RegExp has none of the      *)
(* fields read from an options object, so every default applies.           *)
resolveOptionsNoShorthand(options, defaults) ==
  IF ~Truthy(options) \/ options.t \notin {"object", "array", "url"}
  THEN [err |-> NoErr, v |-> defaults, shared |-> FALSE, own |-> FALSE]
  ELSE IF TrimThrows(options)
  THEN [err |-> "TypeError", v |-> defaults, shared |-> FALSE, own |-> FALSE]
  ELSE [err |-> NoErr, v |-> MergedOptions(options, defaults), shared |-> FALSE, own |-> FALSE]

(* resolveOptions filling the object it was handed and returning that     *)
(* object: the fault the object literal guards against.                    *)
resolveOptionsFillCaller(options, defaults) ==
  IF options.t = "regexp"
  THEN [err |-> NoErr, v |-> [defaults EXCEPT !.match = options], shared |-> FALSE,
        own |-> FALSE]
  ELSE IF ~Truthy(options) \/ options.t \notin {"object", "array", "url"}
  THEN [err |-> NoErr, v |-> defaults, shared |-> FALSE, own |-> FALSE]
  ELSE IF TrimThrows(options)
  THEN [err |-> "TypeError", v |-> defaults, shared |-> FALSE, own |-> FALSE]
  ELSE [err |-> NoErr, v |-> MergedOptions(options, defaults), shared |-> FALSE,
        own |-> options.t = "object"]

(* resolveOptions: [err, v, shared, own].  v is a new object in every      *)
(* branch ({ ...defaultLsOptions } or an object literal): shared, which    *)
(* tells whether v is the object defaultLsOptions itself, and own, which   *)
(* tells whether v is the object the caller handed in, are FALSE.          *)
resolveOptions(options, defaults) ==
  IF options.t = "regexp"
  THEN [err |-> NoErr, v |-> [defaults EXCEPT !.match = options], shared |-> FALSE, own |-> FALSE]
  ELSE IF ~Truthy(options) \/ options.t \notin {"object", "array", "url"}
  THEN [err |-> NoErr, v |-> defaults, shared |-> FALSE, own |-> FALSE]
  ELSE IF TrimThrows(options)
  THEN [err |-> "TypeError", v |-> defaults, shared |-> FALSE, own |-> FALSE]
  ELSE [err |-> NoErr, v |-> MergedOptions(options, defaults), shared |-> FALSE, own |-> FALSE]

(***************************************************************************)
(* The file system: the root holds the directory "d", whose entries are    *)
(* the directory state under test.  A node is [name, kind, kids]:          *)
(*   file   stat succeeds, isFile()                                        *)
(*   dir    stat succeeds, isDirectory()                                   *)
(*   other  stat succeeds, neither (a FIFO, a socket)                      *)
(*   pdir   stat fails, opendir succeeds (a protected directory)           *)
(*   pfile  stat fails, opendir fails with code ENOTDIR                    *)
(*   denied stat fails, opendir fails with another Error (EACCES)          *)
(*   weird  stat fails, opendir throws a value that is no Error            *)
(***************************************************************************)
Node(name, kind, kids) == [name |-> name, kind |-> kind, kids |-> kids]

NoNode == Node(<<>>, "none", <<>>)

S_d == <<100>>     \* "d"

(* fs = [entries, rdfail]: the entries of /d in enumeration order, and how *)
(* reading /d fails ("none": it does not).                                 *)
S_xy == <<120, 58, 121>>        \* "x:y"

RootNode(fs) ==
  Node(<<>>, "dir", << Node(S_d, "dir", fs.entries), Node(S_xy, "dir", <<>>) >>)

RECURSIVE Lookup(_, _)
Lookup(node, segs) ==
  IF segs = <<>> THEN node
  ELSE IF node.kind # "dir" THEN NoNode
  ELSE LET hit == {i \in 1..Len(node.kids) : node.kids[i].name = Head(segs)}
       IN  IF hit = {} THEN NoNode
           ELSE Lookup(node.kids[CHOOSE i \in hit : TRUE], Tail(segs))

NodeAt(fs, p) == Lookup(RootNode(fs), Split(p))

(* The names a recursive read adds below the entries of one directory. *)
RECURSIVE Below(_, _)
Below(prefix, kids) ==
  IF kids = <<>> THEN <<>>
  ELSE LET k == Head(kids)
           here == prefix \o k.name
       IN  (IF k.kind = "dir"
            THEN [i \in 1..Len(k.kids) |-> here \o S_slash \o k.kids[i].name]
                 \o Below(here \o S_slash, k.kids)
            ELSE <<>>)
           \o Below(prefix, Tail(kids))

(* The options check of fs.readdir: `if (encoding && !isEncoding(encoding)) *)
(* throw`, skipped for 'buffer'.  The empty string passes it.              *)
S_buffer == <<98, 117, 102, 102, 101, 114>>     \* "buffer"

ReaddirRefuses(encoding) ==
  encoding # <<>> /\ encoding # S_buffer /\ ~isEncoding(encoding)

(* fs.readdir / fs.readdirSync of an absolute path: [err, v].  An encoding *)
(* the check refuses is a TypeError before the directory is touched; one   *)
(* it lets through without knowing it reads as utf8.                       *)
readdir(fs, p, encoding, recursive) ==
  LET node == NodeAt(fs, p) IN
  IF ReaddirRefuses(encoding) THEN [err |-> "TypeError", v |-> <<>>]
  ELSE IF node.kind # "dir" THEN [err |-> "Error", v |-> <<>>]
  ELSE IF Split(p) = <<S_d>> /\ fs.rdfail # "none" THEN [err |-> fs.rdfail, v |-> <<>>]
  ELSE LET names == [i \in 1..Len(node.kids) |-> node.kids[i].name]
                    \o (IF recursive THEN Below(<<>>, node.kids) ELSE <<>>)
       IN  [err |-> NoErr,
            v |-> [i \in 1..Len(names) |-> BufferToString(names[i], encoding)]]

(* fs.stat: does it succeed, and the flags of the result *)
StatOk(node) == node.kind \in {"file", "dir", "other"}

(* fs.opendir after a failed stat: "ok", "ENOTDIR", "Error", "nonError" *)
Opendir(node) ==
  CASE node.kind = "pdir"  -> "ok"
    [] node.kind = "pfile" -> "ENOTDIR"
    [] node.kind = "weird" -> "nonError"
    [] OTHER -> "Error"

(***************************************************************************)
(* ls, up to the directory read: the argument checks and the resolution of *)
(* the options and of the two paths.  The text is the same in lsfnd.ts and *)
(* lsfnd-sync.ts but for the list of valid types given to checkType.       *)
(***************************************************************************)
(* .replaceAll(/\\/g, '/') *)
ReplaceBackslash(p) == [i \in 1..Len(p) |-> IF p[i] = 92 THEN 47 ELSE p[i]]

(* The options type check that opens ls. *)
OptionsTypeOk(options) ==
  \/ options.t = "regexp"
  \/ ~Truthy(options)
  \/ options.t \in {"object", "url"}

(* dirpath, from the argument to the normalized path: [err, v] *)
ResolveDirpath(dirpath) ==
  IF dirpath.t \notin {"url", "string"} THEN [err |-> "TypeError", v |-> <<>>]
  ELSE IF dirpath.t = "url"
  THEN IF dirpath.protocol # S_file THEN [err |-> "URIError", v |-> <<>>]
       ELSE LET r == fileURLToPath(dirpath)
            IN  [err |-> r.err, v |-> normalize(ReplaceBackslash(r.v))]
  ELSE IF LooksLikeScheme(dirpath.v)
  THEN LET r == resolveFileURL(dirpath.v)
       IN  [err |-> r.err, v |-> normalize(r.v)]
  ELSE [err |-> NoErr, v |-> normalize(dirpath.v)]

(* resOptions.rootDir, checked and resolved: [err, v], v a string *)
ResolveRootDir(rootDir) ==
  IF rootDir.t = "url"
  THEN IF rootDir.protocol # S_file THEN [err |-> "URIError", v |-> <<>>]
       ELSE LET r == fileURLToPath(rootDir)
            IN  [err |-> r.err, v |-> ReplaceBackslash(r.v)]
  ELSE IF LooksLikeScheme(rootDir.v) THEN resolveFileURL(rootDir.v)
  ELSE [err |-> NoErr, v |-> rootDir.v]

(* A call that throws in its checks; defs is defaultLsOptions as the call *)
(* leaves it.                                                              *)
PrologError(cls, defs) ==
  [ err |-> cls, absdirpath |-> <<>>, reldirpath |-> <<>>, usedEncoding |-> <<>>,
    match |-> Undef, exclude |-> Undef, resOptions |-> Undef, defaults |-> defs ]

(* [err, absdirpath, reldirpath, usedEncoding, match, exclude, resOptions, *)
(* defaults].  The one assignment the checks make is to resOptions.rootDir *)
(* (lines 129, 131): it reaches defaultLsOptions only if resOptions is     *)
(* that very object.                                                       *)
lsProlog(dirpath, options, type, validTypes, wd, defaults) ==
  IF ~OptionsTypeOk(options) THEN PrologError("TypeError", defaults)
  ELSE With(resolveOptions(options, defaults), LAMBDA ro :
       With(IF ro.shared THEN ro.v ELSE defaults, LAMBDA defs :
  IF ro.err # NoErr THEN PrologError(ro.err, defs)
  ELSE With(ro.v, LAMBDA res :
  IF res.match.t = "string" /\ ~Compiles(res.match.v) THEN PrologError("SyntaxError", defs)
  ELSE IF Truthy(res.exclude) /\ res.exclude.t = "string" /\ ~Compiles(res.exclude.v)
  THEN PrologError("SyntaxError", defs)
  ELSE With(ResolveDirpath(dirpath), LAMBDA dp :
  IF dp.err # NoErr THEN PrologError(dp.err, defs)
  ELSE With(ResolveRootDir(res.rootDir), LAMBDA rd :
  IF rd.err # NoErr THEN PrologError(rd.err, defs)
  ELSE With([res EXCEPT !.rootDir = Str(rd.v)], LAMBDA res1 :
       With(IF isAbsolute(dp.v) THEN dp.v ELSE resolve(wd, dp.v), LAMBDA abs :
       With(IF ro.shared THEN res1 ELSE defaults, LAMBDA defs1 :
  IF ~checkType(type, validTypes) THEN PrologError("TypeError", defs1)
  ELSE [ err          |-> NoErr,
         absdirpath   |-> abs,
         reldirpath   |-> relative(wd, rd.v, abs),
         usedEncoding |-> res.encoding.v,
         match        |-> resolveMatchExclude(res.match),
         exclude      |-> IF Truthy(res.exclude) THEN resolveMatchExclude(res.exclude)
                          ELSE Undef,
         resOptions   |-> res1,
         defaults     |-> defs1 ]))))))))

(* The object the caller handed in as options, as the call leaves it.      *)
(* What ls assigns (resOptions.rootDir = ...) it assigns to the object     *)
(* resolveOptions returned, up to the check that throws.                   *)
OptionsAfter(dirpath, options, defaults) ==
  IF ~OptionsTypeOk(options) THEN options
  ELSE With(resolveOptions(options, defaults), LAMBDA ro :
    IF ~ro.own \/ ro.err # NoErr THEN options
    ELSE With([t |-> "object", encoding |-> ro.v.encoding, recursive |-> ro.v.recursive,
               match |-> ro.v.match, exclude |-> ro.v.exclude, rootDir |-> ro.v.rootDir,
               absolute |-> ro.v.absolute, basename |-> ro.v.basename], LAMBDA res :
      IF res.match.t = "string" /\ ~Compiles(res.match.v) THEN res
      ELSE IF Truthy(res.exclude) /\ res.exclude.t = "string" /\ ~Compiles(res.exclude.v)
      THEN res
      ELSE IF ResolveDirpath(dirpath).err # NoErr THEN res
      ELSE With(ResolveRootDir(res.rootDir), LAMBDA rd :
        IF rd.err # NoErr THEN res ELSE [res EXCEPT !.rootDir = Str(rd.v)])))

(* checkType(type, [ ...Object.values(lsTypes), 0, null, undefined ]) *)
ValidTypesAsync == lsTypesValuesList \o <<Num(0), Null, Undef>>

(* checkType(type, [ ...Object.keys(lsTypes), ...Object.values(lsTypes), 0, null, undefined ]) *)
ValidTypesSync == lsTypesKeys \o lsTypesValuesList \o <<Num(0), Null, Undef>>

(***************************************************************************)
(* One entry: classification, type switch, patterns, shaping.              *)
(***************************************************************************)
(* The switch with the numeric cases only: the fault the names of the      *)
(* types have to tell from the code.                                       *)
TypeSwitchNumbersOnly(type, isF, isD) ==
  LET t == Coalesce(type, Num(LS_A)) IN
  IF StrictEq(t, Num(LS_D)) THEN [throw |-> FALSE, v |-> ~isF /\ isD]
  ELSE IF StrictEq(t, Num(LS_F)) THEN [throw |-> FALSE, v |-> isF /\ ~isD]
  ELSE IF StrictEq(t, Num(LS_A)) \/ StrictEq(t, Num(0))
  THEN [throw |-> FALSE, v |-> isF \/ isD]
  ELSE [throw |-> TRUE, v |-> FALSE]

(* The switch letting every entry through under LS_A: the fault an entry   *)
(* that is neither a file nor a directory has to tell from the code.       *)
TypeSwitchAllAny(type, isF, isD) ==
  LET t == Coalesce(type, Num(LS_A)) IN
  IF StrictEq(t, Num(LS_D)) \/ StrictEq(t, lsTypesValues(DigitString(LS_D)))
  THEN [throw |-> FALSE, v |-> ~isF /\ isD]
  ELSE IF StrictEq(t, Num(LS_F)) \/ StrictEq(t, lsTypesValues(DigitString(LS_F)))
  THEN [throw |-> FALSE, v |-> isF /\ ~isD]
  ELSE IF \/ StrictEq(t, Num(LS_A))
          \/ StrictEq(t, lsTypesValues(DigitString(LS_A)))
          \/ StrictEq(t, Num(0))
  THEN [throw |-> FALSE, v |-> TRUE]
  ELSE [throw |-> TRUE, v |-> FALSE]

(* The switch on (type ?? lsTypes.LS_A): resultType, or "throw" (default). *)
(* isF is (stats?.isFile() || isFile), isD is (stats?.isDirectory() || isDir). *)
TypeSwitch(type, isF, isD) ==
  LET t == Coalesce(type, Num(LS_A)) IN
  IF StrictEq(t, Num(LS_D)) \/ StrictEq(t, lsTypesValues(DigitString(LS_D)))
  THEN [throw |-> FALSE, v |-> ~isF /\ isD]
  ELSE IF StrictEq(t, Num(LS_F)) \/ StrictEq(t, lsTypesValues(DigitString(LS_F)))
  THEN [throw |-> FALSE, v |-> isF /\ ~isD]
  ELSE IF \/ StrictEq(t, Num(LS_A))
          \/ StrictEq(t, lsTypesValues(DigitString(LS_A)))
          \/ StrictEq(t, Num(0))
  THEN [throw |-> FALSE, v |-> isF \/ isD]
  ELSE [throw |-> TRUE, v |-> FALSE]

(* lastIndex of a RegExp object: the state holds it for the global ones.   *)
LiGet(li, re) == IF re.id \in DOMAIN li THEN li[re.id] ELSE 0

LiPut(li, re, n) == IF re.id \in DOMAIN li THEN [li EXCEPT ![re.id] = n] ELSE li

(* The output forms with basename ahead of absolute: the fault the         *)
(* priority of the forms has to tell from the code.                        *)
ShapeBasenameFirst(P, entry, wd) ==
  IF Truthy(P.resOptions.basename) THEN basename(entry)
  ELSE IF Truthy(P.resOptions.absolute) THEN entry
  ELSE join(P.reldirpath, relative(wd, P.absdirpath, entry))

(* The relative form taken from the listed directory instead of rootDir:   *)
(* the fault the relative strings have to tell from the code.              *)
ShapeRelativeToDir(P, entry, wd) ==
  IF Truthy(P.resOptions.absolute) THEN entry
  ELSE IF Truthy(P.resOptions.basename) THEN basename(entry)
  ELSE relative(wd, P.absdirpath, entry)

(* The three output forms, by priority. *)
Shape(P, entry, wd) ==
  IF Truthy(P.resOptions.absolute) THEN entry
  ELSE IF Truthy(P.resOptions.basename) THEN basename(entry)
  ELSE join(P.reldirpath, relative(wd, P.absdirpath, entry))

(* The patterns tested on the string the entry is given, not on its       *)
(* joined path: the fault the survivors under the output forms have to     *)
(* tell from the code.                                                     *)
FilterEntryShaped(P, entry, resultType, li, wd) ==
  IF ~resultType THEN [keep |-> FALSE, v |-> <<>>, li |-> li]
  ELSE LET shaped == Shape(P, entry, wd)
           m   == RegExpTest(P.match, shaped, LiGet(li, P.match))
           li1 == LiPut(li, P.match, m.lastIndex)
       IN  IF ~m.found THEN [keep |-> FALSE, v |-> <<>>, li |-> li1]
           ELSE IF P.exclude.t = "undefined" THEN [keep |-> TRUE, v |-> shaped, li |-> li1]
           ELSE LET x   == RegExpTest(P.exclude, shaped, LiGet(li1, P.exclude))
                    li2 == LiPut(li1, P.exclude, x.lastIndex)
                IN  [keep |-> ~x.found, v |-> IF x.found THEN <<>> ELSE shaped,
                     li |-> li2]

(* resultType && (match.test(entry) && (exclude ? !exclude.test(entry) : true)) *)
(* ? shaped : null  -- [keep, v, li]; the tests run left to right and stop  *)
(* at the first that decides.                                              *)
FilterEntry(P, entry, resultType, li, wd) ==
  IF ~resultType THEN [keep |-> FALSE, v |-> <<>>, li |-> li]
  ELSE LET m   == RegExpTest(P.match, entry, LiGet(li, P.match))
           li1 == LiPut(li, P.match, m.lastIndex)
       IN  IF ~m.found THEN [keep |-> FALSE, v |-> <<>>, li |-> li1]
           ELSE IF P.exclude.t = "undefined" THEN [keep |-> TRUE, v |-> Shape(P, entry, wd), li |-> li1]
           ELSE LET x   == RegExpTest(P.exclude, entry, LiGet(li1, P.exclude))
                    li2 == LiPut(li1, P.exclude, x.lastIndex)
                IN  [keep |-> ~x.found, v |-> IF x.found THEN <<>> ELSE Shape(P, entry, wd),
                     li |-> li2]

(* What a call hands its caller: a list, null, or an error (its class). *)
(* An error carries its cause: "stat" when it is the opendir error to      *)
(* which the probe attached the stat error (eDir.cause = e), else "none".  *)
ListOutcome(v)  == [k |-> "list", cls |-> "", v |-> v, cause |-> "none"]
NullOutcome     == [k |-> "null", cls |-> "", v |-> <<>>, cause |-> "none"]
ErrorWithCause(c, cause) == [k |-> "error", cls |-> c, v |-> <<>>, cause |-> cause]
ErrorOutcome(c) == ErrorWithCause(c, "none")
NoOutcome       == [k |-> "none", cls |-> "", v |-> <<>>, cause |-> "none"]

(* A catch clause that swallows whatever is thrown: the fault the errors   *)
(* that reach the caller have to tell from the code.                       *)
CatchSwallowAll(cls, cause) == NullOutcome

(* The catch clause around the read and the map: a thrown Error is thrown  *)
(* again, any other thrown value is dropped and result stays null.         *)
Catch(cls, cause) ==
  IF cls = "nonError" THEN NullOutcome ELSE ErrorWithCause(cls, cause)

(* The file system operations ops, all made on path. *)
IoAt(ops, path) == [i \in 1..Len(ops) |-> [op |-> ops[i], path |-> path]]

(* A probe without the fallback, a failed stat ending the call: the fault  *)
(* the entries stat cannot read have to tell from the code.                *)
ClassifyNoFallback(node) ==
  IF StatOk(node)
  THEN [throw |-> FALSE, isF |-> node.kind = "file", isD |-> node.kind = "dir",
        io |-> <<"stat">>]
  ELSE [throw |-> TRUE, isF |-> FALSE, isD |-> FALSE, io |-> <<"stat">>]

(* A probe that takes an entry stat cannot read for a file before it      *)
(* tries opendir: the fault the two flags of one entry have to tell from   *)
(* the code.                                                               *)
ClassifyPresumeFile(node) ==
  IF StatOk(node)
  THEN [throw |-> FALSE, isF |-> node.kind = "file", isD |-> node.kind = "dir",
        io |-> <<"stat">>]
  ELSE LET r == Opendir(node) IN
       CASE r = "ok"      -> [throw |-> FALSE, isF |-> TRUE, isD |-> TRUE,
                              io |-> <<"stat", "opendir", "close">>]
         [] r = "ENOTDIR" -> [throw |-> FALSE, isF |-> TRUE, isD |-> FALSE,
                              io |-> <<"stat", "opendir">>]
         [] r = "nonError" -> [throw |-> FALSE, isF |-> TRUE, isD |-> FALSE,
                              io |-> <<"stat", "opendir">>]
         [] OTHER         -> [throw |-> TRUE, isF |-> FALSE, isD |-> FALSE,
                              io |-> <<"stat", "opendir">>]

(* stat, then opendir when stat failed: the two flags, whether the probe   *)
(* throws, and the file system operations it performs.                     *)
Classify(node) ==
  IF StatOk(node)
  THEN [throw |-> FALSE, isF |-> node.kind = "file", isD |-> node.kind = "dir",
        io |-> <<"stat">>]
  ELSE LET r == Opendir(node) IN
       CASE r = "ok"      -> [throw |-> FALSE, isF |-> FALSE, isD |-> TRUE,
                              io |-> <<"stat", "opendir", "close">>]
         [] r = "ENOTDIR" -> [throw |-> FALSE, isF |-> TRUE, isD |-> FALSE,
                              io |-> <<"stat", "opendir">>]
         [] r = "nonError" -> [throw |-> FALSE, isF |-> FALSE, isD |-> FALSE,
                              io |-> <<"stat", "opendir">>]
         [] OTHER         -> [throw |-> TRUE, isF |-> FALSE, isD |-> FALSE,
                              io |-> <<"stat", "opendir">>]

(* .filter(entry => !!entry): null and the empty string go *)
RECURSIVE Survivors(_)
Survivors(rs) ==
  IF rs = <<>> THEN <<>>
  ELSE (IF Head(rs).keep /\ Head(rs).v # <<>> THEN <<Head(rs).v>> ELSE <<>>)
       \o Survivors(Tail(rs))

(* Sorting first and re-encoding after: the fault the order of the        *)
(* returned strings has to tell from the code.                             *)
FinishSortFirst(result, usedEncoding) ==
  IF usedEncoding # S_utf8 THEN encodeTo(Sort(result), S_utf8, usedEncoding)
  ELSE Sort(result)

(* Re-encoding with no sort after it: the fault the order of a re-encoded  *)
(* list has to tell from the code.                                         *)
FinishEncodeLast(result, usedEncoding) ==
  IF usedEncoding # S_utf8 THEN encodeTo(Sort(result), S_utf8, usedEncoding)
  ELSE result

(* The end of ls: encode back, then sort. *)
Finish(result, usedEncoding) ==
  Sort(IF usedEncoding # S_utf8 THEN encodeTo(result, S_utf8, usedEncoding)
       ELSE result)

(* One entry of the map: its joined path, how far its turn got (st), the  *)
(* two flags of the probe, whether its string is kept and the string, and *)
(* the directory handle of the fallback: "none", "open" or "closed".      *)
NewTask(entry) ==
  [entry |-> entry, st |-> "stat", keep |-> FALSE, v |-> <<>>,
   isF |-> FALSE, isD |-> FALSE, h |-> "none"]

(* The entry of a synchronous turn after its probe c.  dir.close() with   *)
(* no callback returns a promise: the handle is closed after ls returned. *)
Probed(entry, c, st) ==
  [NewTask(entry) EXCEPT !.st = st, !.isF = c.isF, !.isD = c.isD,
                         !.h = IF Len(c.io) = 3 THEN "open" ELSE "none"]

(* One turn of utf8Entries.map(...) in the synchronous ls, acc being      *)
(* [rs, li, io, err] so far: the probe, the switch, the patterns.          *)
SyncEntry(P, type, fs, wd, name, acc) ==
  With(join(P.absdirpath, name), LAMBDA entry :
  With(Classify(NodeAt(fs, entry)), LAMBDA c :
    IF c.throw
    THEN [acc EXCEPT !.rs = Append(@, Probed(entry, c, "failed")),
                     !.io = @ \o IoAt(c.io, entry), !.err = "Error", !.cause = "stat"]
    ELSE With(TypeSwitch(type, c.isF, c.isD), LAMBDA sw :
      IF sw.throw THEN [acc EXCEPT !.rs = Append(@, Probed(entry, c, "failed")),
                                   !.io = @ \o IoAt(c.io, entry), !.err = "TypeError"]
      ELSE With(FilterEntry(P, entry, sw.v, acc.li, wd), LAMBDA f :
             [rs  |-> Append(acc.rs, [Probed(entry, c, "done") EXCEPT
                                        !.keep = f.keep, !.v = f.v]),
              li  |-> f.li,
              io  |-> acc.io \o IoAt(c.io, entry),
              err |-> NoErr, cause |-> "none"]))))

(* utf8Entries.map(...) of the synchronous ls: the entries one after the   *)
(* other; a throw ends the map.                                            *)
RECURSIVE SyncMap(_, _, _, _, _, _)
SyncMap(P, type, fs, wd, entries, acc) ==
  IF entries = <<>> \/ acc.err # NoErr THEN acc
  ELSE With(SyncEntry(P, type, fs, wd, Head(entries), acc), LAMBDA acc1 :
       With(Tail(entries), LAMBDA rest :
         SyncMap(P, type, fs, wd, rest, acc1)))

(* ls from the directory read on, P being what the checks resolved. *)
SyncList(P, type, fs, wd, li) ==
  With(readdir(fs, P.absdirpath, P.usedEncoding, Truthy(P.resOptions.recursive)),
       LAMBDA rd :
  With(IF ReaddirRefuses(P.usedEncoding) THEN <<>>
       ELSE IoAt(<<"readdir">>, P.absdirpath), LAMBDA io0 :
    IF rd.err # NoErr
    THEN [outcome |-> Catch(rd.err, "none"), io |-> io0, li |-> li, rs |-> <<>>]
    ELSE IF encodeToThrows(P.usedEncoding, S_utf8)
    THEN [outcome |-> Catch("TypeError", "none"), io |-> io0, li |-> li, rs |-> <<>>]
    ELSE With(SyncMap(P, type, fs, wd, encodeTo(rd.v, P.usedEncoding, S_utf8),
                      [rs |-> <<>>, li |-> li, io |-> io0, err |-> NoErr,
                       cause |-> "none"]),
              LAMBDA m :
           IF m.err # NoErr
           THEN [outcome |-> Catch(m.err, m.cause), io |-> m.io, li |-> m.li,
                 rs |-> m.rs]
           ELSE [outcome |-> ListOutcome(Finish(Survivors(m.rs), P.usedEncoding)),
                 io |-> m.io, li |-> m.li, rs |-> m.rs])))

(* lsfnd-sync.ts ls: [outcome, io, li, rs] *)
lsSync(dirpath, options, type, fs, wd, defaults, li) ==
  With(lsProlog(dirpath, options, type, ValidTypesSync, wd, defaults), LAMBDA P :
    IF P.err # NoErr
    THEN [outcome |-> ErrorOutcome(P.err), io |-> <<>>, li |-> li, rs |-> <<>>]
    ELSE SyncList(P, type, fs, wd, li))

(* defaultLsOptions after a call of ls, sync or async *)
DefaultsAfter(P) == P.defaults

(* lsFiles and lsDirs of lsfnd-sync.ts *)
lsFilesSync(dirpath, options, fs, wd, defaults, li) ==
  lsSync(dirpath, options, Num(LS_F), fs, wd, defaults, li)

lsDirsSync(dirpath, options, fs, wd, defaults, li) ==
  lsSync(dirpath, options, Num(LS_D), fs, wd, defaults, li)

(***************************************************************************)
(* The state.                                                              *)
(***************************************************************************)
VARIABLES
  fsys,              \* the file system (the entries of /d, and how reading /d fails)
  cwd,               \* process.cwd()
  defaultLsOptions,  \* the exported object of constants.ts
  lastIndex,         \* lastIndex of the caller's global RegExp objects
  call,              \* the arguments of the last call, and what it resolved them to
  pc,                \* "idle", "returned", or where the asynchronous ls is suspended
  tasks,             \* the per-entry tasks of the asynchronous ls
  outcome,           \* what the last call handed its caller
  iolog,             \* the file system operations of the last call, in order
  prev               \* the call before the last one and its outcome, where kept

vars == <<fsys, cwd, defaultLsOptions, lastIndex, call, pc, tasks, outcome, iolog, prev>>

(***************************************************************************)
(* Bounds and input sets.                                                  *)
(***************************************************************************)
MaxEntries == 2    \* entries of the listed directory

S_c1 == <<99, 49>>     \* "c1"
S_cA == <<99, 65>>     \* "cA"
S_c  == <<99>>         \* "c"
S_A  == <<65>>         \* "A"

(* The nodes a directory state is made of. *)
NodePool ==
  << Node(S_c1, "file", <<>>),
     Node(S_cA, "dir", << Node(S_c1, "file", <<>>) >>),
     Node(<<111>>, "other", <<>>),
     Node(<<115>>, "pdir", <<>>) >>

(* The nodes whose probing fails twice; a directory state holds at most    *)
(* one of them, alone or beside the regular file.                          *)
HardPool ==
  << Node(<<116>>, "pfile", <<>>),
     Node(<<117>>, "denied", <<>>),
     Node(<<119>>, "weird", <<>>) >>

RECURSIVE SeqsUpTo(_, _)
SeqsUpTo(S, n) ==
  IF n = 0 THEN {<<>>}
  ELSE LET shorter == SeqsUpTo(S, n - 1)
       IN  shorter \cup {Append(q, x) : q \in {r \in shorter : Len(r) = n - 1}, x \in S}

(* The directory states: up to MaxEntries entries with different names, in *)
(* any enumeration order.                                                  *)
DirStates ==
  { [i \in 1..Len(q) |-> NodePool[q[i]]] :
      q \in { r \in SeqsUpTo(1..Len(NodePool), MaxEntries) :
                \A i, j \in 1..Len(r) :
                  i # j => NodePool[r[i]].name # NodePool[r[j]].name } }

HardDirStates ==
  UNION { { <<HardPool[i]>>, <<NodePool[1], HardPool[i]>>, <<HardPool[i], NodePool[1]>> } :
            i \in 1..Len(HardPool) }

(* A directory stat cannot read next to an entry whose probe fails. *)
HandleDirStates ==
  { <<NodePool[4], HardPool[2]>>, <<HardPool[2], NodePool[4]>> }

FsStates ==
  {[entries |-> e, rdfail |-> "none"] : e \in DirStates \cup HardDirStates \cup HandleDirStates}
    \cup {[entries |-> <<>>, rdfail |-> "nonError"]}

(* The caller's RegExp objects. *)
RE_c  == Re("c", "lit", S_c, FALSE)      \* /c/
RE_cg == Re("cg", "lit", S_c, TRUE)      \* /c/g
RE_A  == Re("A", "lit", S_A, FALSE)      \* /A/
RE_Ag == Re("Ag", "lit", S_A, TRUE)      \* /A/g

GlobalIds == {"cg", "Ag"}

Options(enc, rec, m, x, root, abs, base) ==
  [ t |-> "object", encoding |-> enc, recursive |-> rec, match |-> m,
    exclude |-> x, rootDir |-> root, absolute |-> abs, basename |-> base ]

EmptyOptions == Options(Undef, Undef, Undef, Undef, Undef, Undef, Undef)

S_abs_d == <<47, 100>>        \* "/d"

(* The type arguments: the valid ones, and some that are not. *)
TypeArgs ==
  { Undef, Null, Num(0), Num(LS_A), Num(LS_D), Num(LS_F),
    Str(S_LS_A), Str(S_LS_D), Str(S_LS_F),
    Str(DigitString(LS_A)), Str(<<76, 83, 95, 70, 79, 79>>), Num(3), Arr }

(* A call: the function, and its arguments. *)
Args(fn, dirpath, options, type) ==
  [fn |-> fn, dirpath |-> dirpath, options |-> options, type |-> type]

(* Types and patterns over the plain listing of /d. *)
PatternArgs ==
  { Args("ls", Str(S_abs_d),
         Options(Undef, Undef, m, x, Undef, Bool(TRUE), Undef), ty) :
      m \in {Undef, RE_c, RE_cg, Str(S_A)},
      x \in {Undef, RE_A, RE_Ag},
      ty \in {Undef, Num(LS_D), Num(LS_F)} }

TypeArgsOf ==
  { Args("ls", Str(S_abs_d), EmptyOptions, ty) : ty \in TypeArgs }

(* Output form and encoding. *)
ShapeArgs ==
  { Args(fn, Str(S_abs_d), Options(enc, rec, Undef, Undef, root, abs, base), Undef) :
      fn \in {"ls", "lsFiles", "lsDirs"},
      enc \in {Undef, Str(S_base64), Str(S_hex)},
      rec \in {Undef, Bool(TRUE)},
      root \in {Undef, Str(S_abs_d)},
      abs \in {Undef, Bool(TRUE)},
      base \in {Undef, Bool(TRUE)} }

(* url.pathToFileURL(p), as the tests build the URL of a directory: the    *)
(* resolved path, a trailing "/" kept, "%" and blank percent-encoded.      *)
pathToFileURL(wd, p) ==
  LET r == resolve(wd, p)
      q == IF p # <<>> /\ p[Len(p)] = 47 /\ r[Len(r)] # 47 THEN r \o S_slash ELSE r
  IN  Url(S_file, <<>>, PercentEncode(q, {37, 32}))

(* url.href *)
Href(u) == u.protocol \o S_slash \o S_slash \o u.host \o u.pathname

S_nx     == <<47, 110, 120>>              \* "/nx", no such directory
S_pct    == <<47, 37, 54, 52>>         \* "/%64", no such directory
S_rel_d  == <<46, 47, 100>>             \* "./d"
S_d_sl   == <<47, 100, 47>>             \* "/d/"
S_http   == <<104, 116, 116, 112, 58>>   \* "http:"
S_http_d == <<104, 116, 116, 112, 58, 47, 47, 100>>   \* "http://d"
S_win_d  == <<67, 58, 47, 100>>         \* "C:/d"
S_h      == <<104>>                      \* "h"
S_paren  == <<40>>                       \* "(", no regular expression

(* Directory paths. *)
PlainPaths == { S_abs_d, S_d, S_d_sl, S_rel_d, S_slash, S_nx, S_pct, S_xy }

(* Strings in the relaxed file-URL forms. *)
RelaxedForms ==
  { S_file, S_file2, S_file3, S_file \o S_rel_d, S_file \o S_abs_d }

(* Every dirpath argument tried. *)
DirpathArgs ==
  { Str(p) : p \in PlainPaths }
    \cup { Str(Href(pathToFileURL(S_slash, p))) : p \in PlainPaths }
    \cup { pathToFileURL(S_slash, p) : p \in PlainPaths }
    \cup { Str(f) : f \in RelaxedForms }
    \cup { Str(S_file2 \o S_h \o S_abs_d), Str(S_file2 \o S_localhost \o S_abs_d),
           Str(S_file2 \o S_pct), Str(S_http_d), Str(S_win_d),
           Url(S_http, S_h, S_abs_d), Url(S_file, S_h, S_abs_d), Num(5) }

(* Every rootDir option tried. *)
RootDirArgs ==
  { Str(S_abs_d), Str(S_file3 \o S_d), Str(S_http_d), Str(S_xy), Str(S_win_d),
    Url(S_file, <<>>, S_abs_d), Url(S_http, S_h, S_abs_d), Url(S_file, S_h, S_abs_d) }

(* Options arguments that are no plain options object, or a faulty one. *)
OddOptions ==
  { Undef, Null, Arr, Fn, Num(7), Num(0), Str(S_A), Str(<<>>), Bool(FALSE), Bool(TRUE),
    RE_c,
    Options(Undef, Undef, Str(S_paren), Undef, Undef, Undef, Undef),
    Options(Bool(TRUE), Undef, Undef, Undef, Undef, Undef, Undef),
    Options(Undef, Undef, Undef, Undef, Str(S_http_d), Undef, Undef) }

(* The forms of dirpath, under two output forms and two types. *)
PathArgs ==
  { Args("ls", dp, Options(Undef, Undef, Undef, Undef, Undef, abs, Undef), ty) :
      dp \in DirpathArgs, abs \in {Undef, Bool(TRUE)}, ty \in {Undef, Num(LS_F)} }

(* The forms of rootDir. *)
RootArgs ==
  { Args("ls", dp, Options(Undef, Undef, Undef, Undef, root, Undef, Undef), Undef) :
      dp \in {Str(S_abs_d), Str(S_nx), Str(S_http_d), Num(5)}, root \in RootDirArgs }

(* Arguments of which several may be invalid at once. *)
OddArgs ==
  { Args("ls", dp, o, ty) :
      dp \in {Str(S_abs_d), Str(S_nx), Str(S_http_d), Str(S_xy), Num(5),
              Url(S_http, S_h, S_abs_d)},
      o \in OddOptions,
      ty \in {Undef, Num(3), Str(DigitString(LS_A))} }

S_zz == <<122, 122>>                              \* "zz"
S_hex_sp == <<32, 104, 101, 120, 32>>             \* " hex "

(* Encodings: names the host does not know, values that are no string, a   *)
(* known name in blanks.                                                   *)
EncodingArgs ==
  { Args(fn, dp, Options(enc, Undef, Undef, Undef, Undef, Undef, Undef), Undef) :
      fn \in {"ls", "lsFiles"},
      dp \in {Str(S_abs_d), Str(S_nx)},
      enc \in {Str(S_zz), Str(<<>>), Bool(TRUE), Str(S_hex_sp)} }

(* Patterns given as strings, under the output forms: one that matches in  *)
(* the directory part of every joined path, the empty one, one that does   *)
(* not compile.                                                            *)
MatchFormArgs ==
  { Args("ls", Str(S_abs_d), Options(Undef, Undef, m, x, f[1], f[2], f[3]), Undef) :
      m \in {Undef, Str(S_d)},
      x \in {Undef, Str(<<>>), Str(S_paren), Str(S_A)},
      f \in { <<Undef, Bool(TRUE), Undef>>, <<Undef, Undef, Bool(TRUE)>>,
              <<Undef, Undef, Undef>>, <<Str(S_abs_d), Undef, Undef>> } }

ListArgs ==
  PatternArgs \cup TypeArgsOf \cup ShapeArgs \cup PathArgs \cup RootArgs \cup OddArgs
    \cup EncodingArgs \cup MatchFormArgs

(* lsFiles and lsDirs fix the type. *)
TypeOf(a) ==
  IF a.fn = "lsFiles" THEN Num(LS_F)
  ELSE IF a.fn = "lsDirs" THEN Num(LS_D)
  ELSE a.type

NoCall ==
  [ fn |-> "none", variant |-> "none", dirpath |-> Undef, options |-> Undef,
    type |-> Undef, li0 |-> <<>>, optionsAfter |-> Undef,
    P |-> PrologError("none", MakeDefaultLsOptions(S_slash)) ]

NoPrev == [call |-> NoCall, outcome |-> NoOutcome, cwd |-> <<>>]

InitWith(F) ==
  /\ fsys \in F
  /\ cwd = S_slash
  /\ defaultLsOptions = MakeDefaultLsOptions(S_slash)
  /\ lastIndex = [id \in GlobalIds |-> 0]
  /\ call = NoCall
  /\ pc = "idle"
  /\ tasks = <<>>
  /\ outcome = NoOutcome
  /\ iolog = <<>>
  /\ prev = NoPrev

Init == InitWith(FsStates)

(* No task of an earlier call is still running. *)
Quiet ==
  \A i \in 1..Len(tasks) : tasks[i].st \in {"done", "failed"} /\ tasks[i].h # "open"

(* The caller has the result of the last call (pc = "returned"); it makes  *)
(* the next call once nothing of the last one is left running.             *)
Return ==
  /\ pc = "returned"
  /\ Quiet
  /\ pc' = "idle"
  /\ call' = NoCall
  /\ outcome' = NoOutcome
  /\ iolog' = <<>>
  /\ tasks' = <<>>
  /\ UNCHANGED <<fsys, cwd, defaultLsOptions, lastIndex, prev>>

(***************************************************************************)
(* The synchronous call: one blocking step.                                *)
(***************************************************************************)
SyncCallOf(A) ==
  /\ pc = "idle"
  /\ \E a \in A :
       LET r == lsSync(a.dirpath, a.options, TypeOf(a), fsys, cwd,
                       defaultLsOptions, lastIndex)
           P == lsProlog(a.dirpath, a.options, TypeOf(a), ValidTypesSync,
                         cwd, defaultLsOptions)
       IN  /\ call' = [ fn |-> a.fn, variant |-> "sync", dirpath |-> a.dirpath,
                        options |-> a.options, type |-> TypeOf(a), li0 |-> lastIndex,
                        optionsAfter |-> OptionsAfter(a.dirpath, a.options,
                                                      defaultLsOptions),
                        P |-> P ]
           /\ outcome' = r.outcome
           /\ iolog' = r.io
           /\ lastIndex' = r.li
           /\ defaultLsOptions' = DefaultsAfter(P)
           /\ tasks' = r.rs
  /\ pc' = "returned"
  /\ UNCHANGED <<fsys, cwd, prev>>

(* A handle the synchronous ls asked to close is closed, ls having        *)
(* returned.                                                               *)
SyncCloseDone ==
  /\ pc = "returned"
  /\ call.variant = "sync"
  /\ \E i \in 1..Len(tasks) :
       /\ tasks[i].h = "open"
       /\ tasks' = [tasks EXCEPT ![i].h = "closed"]
  /\ UNCHANGED <<fsys, cwd, defaultLsOptions, lastIndex, call, pc, outcome, iolog, prev>>

(***************************************************************************)
(* The asynchronous call: the checks run at once; the read of the          *)
(* directory, and then every stat, opendir and close, complete one by one  *)
(* in any order.  A promise settles in the step that decides it (its       *)
(* reactions are microtasks, run before the next completion is handled).   *)
(***************************************************************************)
AsyncCallOf(A) ==
  /\ pc = "idle"
  /\ \E a \in A :
       LET P == lsProlog(a.dirpath, a.options, TypeOf(a), ValidTypesAsync,
                         cwd, defaultLsOptions)
       IN  /\ call' = [ fn |-> a.fn, variant |-> "async", dirpath |-> a.dirpath,
                        options |-> a.options, type |-> TypeOf(a), li0 |-> lastIndex,
                        optionsAfter |-> OptionsAfter(a.dirpath, a.options,
                                                      defaultLsOptions),
                        P |-> P ]
           /\ IF P.err # NoErr
              THEN outcome' = ErrorOutcome(P.err) /\ pc' = "returned" /\ iolog' = <<>>
              ELSE /\ outcome' = NoOutcome
                   /\ pc' = "readdir"
                   /\ iolog' = IF ReaddirRefuses(P.usedEncoding) THEN <<>>
                               ELSE IoAt(<<"readdir">>, P.absdirpath)
           /\ defaultLsOptions' = DefaultsAfter(P)
  /\ tasks' = <<>>
  /\ UNCHANGED <<fsys, cwd, lastIndex, prev>>

ReaddirDone ==
  /\ pc = "readdir"
  /\ LET P  == call.P
         rd == readdir(fsys, P.absdirpath, P.usedEncoding, Truthy(P.resOptions.recursive))
         es == encodeTo(rd.v, P.usedEncoding, S_utf8)
     IN  IF rd.err # NoErr
         THEN outcome' = Catch(rd.err, "none") /\ pc' = "returned" /\ UNCHANGED <<tasks, iolog>>
         ELSE IF encodeToThrows(P.usedEncoding, S_utf8)
         THEN /\ outcome' = Catch("TypeError", "none")
              /\ pc' = "returned"
              /\ UNCHANGED <<tasks, iolog>>
         ELSE IF es = <<>>
         THEN /\ outcome' = ListOutcome(Finish(<<>>, P.usedEncoding))
              /\ pc' = "returned"
              /\ UNCHANGED <<tasks, iolog>>
         ELSE /\ tasks' = [i \in 1..Len(es) |-> NewTask(join(P.absdirpath, es[i]))]
              /\ iolog' = iolog \o [i \in 1..Len(es) |->
                                       [op |-> "stat", path |-> join(P.absdirpath, es[i])]]
              /\ pc' = "tasks"
              /\ UNCHANGED outcome
  /\ UNCHANGED <<fsys, cwd, defaultLsOptions, lastIndex, call, prev>>

(* The rest of a task once its entry is classified: the type switch, the   *)
(* patterns, the shaping; and the settling of Promise.all when this task   *)
(* is the one that decides it.                                             *)
AfterProbeOf(ts0, i, isF, isD) ==
  LET sw == TypeSwitch(call.type, isF, isD)
      f  == FilterEntry(call.P, ts0[i].entry, sw.v, lastIndex, cwd)
      ts == [ts0 EXCEPT ![i] =
               IF sw.throw THEN [@ EXCEPT !.st = "failed", !.isF = isF, !.isD = isD]
               ELSE [@ EXCEPT !.st = "done", !.keep = f.keep, !.v = f.v,
                              !.isF = isF, !.isD = isD]]
  IN  /\ tasks' = ts
      /\ lastIndex' = IF sw.throw THEN lastIndex ELSE f.li
      /\ IF pc = "tasks" /\ sw.throw
         THEN outcome' = Catch("TypeError", "none") /\ pc' = "returned"
         ELSE IF pc = "tasks" /\ \A j \in 1..Len(ts) : ts[j].st = "done"
         THEN /\ outcome' = ListOutcome(Finish(Survivors(ts), call.P.usedEncoding))
              /\ pc' = "returned"
         ELSE UNCHANGED <<outcome, pc>>

AfterProbe(i, isF, isD) == AfterProbeOf(tasks, i, isF, isD)

StatDone ==
  /\ \E i \in 1..Len(tasks) :
       /\ tasks[i].st = "stat"
       /\ LET node == NodeAt(fsys, tasks[i].entry) IN
          IF StatOk(node)
          THEN AfterProbe(i, node.kind = "file", node.kind = "dir") /\ UNCHANGED iolog
          ELSE /\ tasks' = [tasks EXCEPT ![i].st = "opendir"]
               /\ iolog' = Append(iolog, [op |-> "opendir", path |-> tasks[i].entry])
               /\ UNCHANGED <<lastIndex, outcome, pc>>
  /\ UNCHANGED <<fsys, cwd, defaultLsOptions, call, prev>>

OpendirDone ==
  /\ \E i \in 1..Len(tasks) :
       /\ tasks[i].st = "opendir"
       /\ LET r == Opendir(NodeAt(fsys, tasks[i].entry)) IN
          CASE r = "ok" ->
                 /\ tasks' = [tasks EXCEPT ![i].st = "close", ![i].h = "open"]
                 /\ iolog' = Append(iolog, [op |-> "close", path |-> tasks[i].entry])
                 /\ UNCHANGED <<lastIndex, outcome, pc>>
            [] r = "ENOTDIR" -> AfterProbe(i, TRUE, FALSE) /\ UNCHANGED iolog
            [] r = "nonError" -> AfterProbe(i, FALSE, FALSE) /\ UNCHANGED iolog
            [] OTHER ->
                 /\ tasks' = [tasks EXCEPT ![i].st = "failed"]
                 /\ IF pc = "tasks"
                    THEN outcome' = Catch("Error", "stat") /\ pc' = "returned"
                    ELSE UNCHANGED <<outcome, pc>>
                 /\ UNCHANGED <<lastIndex, iolog>>
  /\ UNCHANGED <<fsys, cwd, defaultLsOptions, call, prev>>

CloseDone ==
  /\ \E i \in 1..Len(tasks) :
       /\ tasks[i].st = "close"
       /\ AfterProbeOf([tasks EXCEPT ![i].h = "closed"], i, FALSE, TRUE)
  /\ UNCHANGED <<fsys, cwd, defaultLsOptions, call, iolog, prev>>

SyncCall == SyncCallOf(ListArgs)

AsyncCall == AsyncCallOf(ListArgs)

Next ==
  \/ SyncCall
  \/ AsyncCall
  \/ ReaddirDone
  \/ StatDone
  \/ OpendirDone
  \/ CloseDone
  \/ SyncCloseDone
  \/ Return

Spec == Init /\ [][Next]_vars

(***************************************************************************)
(* A caller that repeats one call, and changes the working directory       *)
(* between calls: what the last call returned is kept when the next one is *)
(* made.  The working directory changes outside the library                *)
(* (process.chdir); the library reads it with process.cwd().               *)
(***************************************************************************)
WorkDirs == {S_slash, S_abs_d}

(* The calls this caller makes. *)
SeqArgs ==
  { Args(fn, dp, o, Undef) :
      fn \in {"ls", "lsFiles"},
      dp \in {Str(S_abs_d), Str(S_dot)},
      o \in { Undef,
              Options(Undef, Undef, RE_c, Undef, Undef, Bool(TRUE), Undef),
              Options(Undef, Undef, RE_cg, Undef, Undef, Bool(TRUE), Undef) } }

(* The directory states it meets: those of at most one entry. *)
SeqFsStates == {fs \in FsStates : Len(fs.entries) <= 1}

(* The call just made, again. *)
Again ==
  IF prev = NoPrev THEN SeqArgs
  ELSE { a \in SeqArgs : /\ a.fn = prev.call.fn
                         /\ a.dirpath = prev.call.dirpath
                         /\ a.options = prev.call.options }

SeqSyncCall ==
  /\ prev.call.variant \in {"none", "sync"}
  /\ SyncCallOf(Again)

SeqAsyncCall ==
  /\ prev.call.variant \in {"none", "async"}
  /\ AsyncCallOf(Again)

ReturnSeq ==
  /\ pc = "returned"
  /\ Quiet
  /\ prev' = [call |-> call, outcome |-> outcome, cwd |-> cwd]
  /\ pc' = "idle"
  /\ call' = NoCall
  /\ outcome' = NoOutcome
  /\ iolog' = <<>>
  /\ tasks' = <<>>
  /\ UNCHANGED <<fsys, cwd, defaultLsOptions, lastIndex>>

Chdir ==
  /\ pc = "idle"
  /\ cwd' \in WorkDirs \ {cwd}
  /\ UNCHANGED <<fsys, defaultLsOptions, lastIndex, call, pc, tasks, outcome, iolog, prev>>

NextSeq ==
  \/ SeqSyncCall
  \/ SeqAsyncCall
  \/ ReaddirDone
  \/ StatDone
  \/ OpendirDone
  \/ CloseDone
  \/ SyncCloseDone
  \/ ReturnSeq
  \/ Chdir

SpecSeq == InitWith(SeqFsStates) /\ [][NextSeq]_vars

(***************************************************************************)
(* Properties.  A call under examination is one that has returned; what    *)
(* another call would have given is computed from the state the returned   *)
(* call started in (fsys and cwd as they are, lastIndex as call.li0).      *)
(***************************************************************************)
Returned == pc = "returned"

Elems(l) == {l[i] : i \in 1..Len(l)}

(* The type arguments the documentation allows. *)
DocumentedTypes ==
  << Num(LS_A), Num(LS_D), Num(LS_F), Str(S_LS_A), Str(S_LS_D), Str(S_LS_F),
     Num(0), Null, Undef >>

IsDocumentedType(type) ==
  \E i \in 1..Len(DocumentedTypes) : StrictEq(type, DocumentedTypes[i])

(* The type arguments that mean "all". *)
IsTypeAll(type) ==
  \/ IsNullish(type)
  \/ StrictEq(type, Num(0)) \/ StrictEq(type, Num(LS_A)) \/ StrictEq(type, Str(S_LS_A))

(* An option of the call as the caller gave it. *)
Given(name) == Field(call.options, name)

(* What each variant checks the type against. *)
ValidTypesOf(variant) == IF variant = "sync" THEN ValidTypesSync ELSE ValidTypesAsync

(* The synchronous ls on other arguments, from the state the call started in. *)
SyncFrom(dirpath, options, type) ==
  lsSync(dirpath, options, type, fsys, cwd, defaultLsOptions, call.li0).outcome

(* s has a match of re somewhere (lastIndex left aside). *)
Matches(re, s) ==
  IF re.kind = "any" THEN s # <<>> ELSE Find(re.lit, s, 0) >= 0

(* A URL object of another protocol, or a string "<letters>:..." that does *)
(* not start "file:".                                                      *)
BadScheme(v) ==
  \/ v.t = "url" /\ v.protocol # S_file
  \/ v.t = "string" /\ LooksLikeScheme(v.v) /\ ~StartsWith(v.v, S_file)

(* The options argument is of a documented type: an object, a RegExp, null *)
(* or undefined.                                                           *)
OptionsDocumented(o) == o.t \in {"object", "regexp", "null", "undefined"}

(* C1: for every directory state and options, the lists of lsFiles and     *)
(* lsDirs together hold exactly the elements of the list of ls (all        *)
(* types), and have no element in common.                                  *)
C1_FilesAndDirsPartitionAll ==
  ( /\ Returned /\ call.variant = "sync" /\ call.fn = "ls"
    /\ IsTypeAll(call.type) /\ outcome.k = "list" ) =>
    LET f == SyncFrom(call.dirpath, call.options, Num(LS_F))
        d == SyncFrom(call.dirpath, call.options, Num(LS_D))
    IN  /\ f.k = "list" /\ d.k = "list"
        /\ Elems(f.v) \cup Elems(d.v) = Elems(outcome.v)
        /\ Elems(f.v) \cap Elems(d.v) = {}

(* C2: a returned list is in ascending order of the strings it holds, as   *)
(* returned (shaped and re-encoded), in the sync and the async variant.    *)
C2_ReturnedListSorted ==
  (Returned /\ outcome.k = "list") => IsSorted(outcome.v)

(* An async call returned two or more base64 strings whose decoded forms   *)
(* are in the other order.                                                 *)
C2_Witness ==
  /\ Returned /\ call.variant = "async" /\ outcome.k = "list"
  /\ call.P.usedEncoding = S_base64
  /\ Len(outcome.v) >= 2
  /\ ~IsSorted(encodeTo(outcome.v, S_base64, S_utf8))

(* C3: the sync ls and the async ls give the same outcome on the same      *)
(* arguments and file system: the same list, both null, or an error of the *)
(* same class.                                                             *)
C3_SyncAsyncSameOutcome ==
  (Returned /\ call.variant = "async") =>
    outcome = SyncFrom(call.dirpath, call.options, call.type)

(* C4: a type argument that is none of 1, 2, 4, 'LS_A', 'LS_D', 'LS_F', 0, *)
(* null, undefined makes ls fail with a TypeError, in both variants and    *)
(* whatever the directory holds (the other arguments being valid).         *)
C4_UnknownTypeIsTypeError ==
  ( /\ Returned /\ call.fn = "ls"
    /\ call.dirpath = Str(S_abs_d) /\ call.options = EmptyOptions
    /\ ~IsDocumentedType(call.type) ) =>
    outcome = ErrorOutcome("TypeError")

(* The arguments C5 calls invalid: dirpath neither string nor URL, another *)
(* scheme in dirpath or rootDir, options of an unsupported type (the empty *)
(* string, 0 and false, which the type check lets through as absent, are   *)
(* left aside here), a type argument that is not documented.               *)
InvalidArguments ==
  \/ call.dirpath.t \notin {"string", "url"}
  \/ BadScheme(call.dirpath)
  \/ BadScheme(Given("rootDir"))
  \/ ~OptionsDocumented(call.options) /\ Truthy(call.options)
  \/ ~IsDocumentedType(call.type)

(* C5: a call with an invalid argument ends in an error that reaches the   *)
(* caller, raised before any file system operation (readdir, stat,         *)
(* opendir) was performed, whether the directory exists or not.            *)
C5_InvalidArgumentsFailBeforeIO ==
  (Returned /\ InvalidArguments) =>
    /\ outcome.k = "error"
    /\ iolog = <<>>

(* C6: no element of a returned list is a path the exclude pattern         *)
(* matches, and every element is a path the match pattern matches (read    *)
(* off calls that return absolute paths in utf8, where the element is the  *)
(* path tested).                                                           *)
C6_ExcludedNeverReturned ==
  ( /\ Returned /\ outcome.k = "list"
    /\ Truthy(call.P.resOptions.absolute) /\ call.P.usedEncoding = S_utf8 ) =>
    \A x \in Elems(outcome.v) :
      /\ Matches(call.P.match, x)
      /\ call.P.exclude.t # "undefined" => ~Matches(call.P.exclude, x)

(* The names the directory read of the call yields. *)
EntryNames ==
  readdir(fsys, call.P.absdirpath, S_utf8, Truthy(call.P.resOptions.recursive)).v

(* The utf8 form of a returned string. *)
Utf8Of(x) == encodeTo(<<x>>, call.P.usedEncoding, S_utf8)[1]

(* The last segment of a path. *)
LastSegment(e) == Split(e)[Len(Split(e))]

(* C7: with options.absolute true every returned element is an entry's     *)
(* absolute path (the listed directory joined with the entry's name),      *)
(* whatever basename and rootDir are; with absolute false and basename     *)
(* true it is the entry's last segment; with both false it is a path that, *)
(* taken from rootDir, leads to the entry.                                 *)
C7_ShapePriority ==
  (Returned /\ outcome.k = "list") =>
    \A i \in 1..Len(outcome.v) :
      \E name \in Elems(EntryNames) :
        LET e == join(call.P.absdirpath, name)
            x == Utf8Of(outcome.v[i])
        IN  IF Truthy(Given("absolute")) THEN x = e
            ELSE IF Truthy(Given("basename")) THEN x = LastSegment(e)
            ELSE resolve(resolve(cwd, call.P.resOptions.rootDir.v), x) = e

(* A call with absolute and basename both true, and a rootDir, returned a  *)
(* list that is not empty.                                                 *)
C7_Witness ==
  /\ Returned /\ outcome.k = "list" /\ outcome.v # <<>>
  /\ Truthy(Given("absolute")) /\ Truthy(Given("basename"))
  /\ Given("rootDir") = Str(S_abs_d)

(* The call would have gone the same way on another form of its dirpath:   *)
(* the checks resolve the same, and the sync call ends the same.           *)
SameOn(dirpath) ==
  /\ lsProlog(dirpath, call.options, call.type, ValidTypesOf(call.variant),
              cwd, defaultLsOptions) = call.P
  /\ call.variant = "sync" => SyncFrom(dirpath, call.options, call.type) = outcome

SameOnURLForms(p) ==
  /\ SameOn(Str(Href(pathToFileURL(cwd, p))))
  /\ SameOn(pathToFileURL(cwd, p))

RelaxedTarget(f) ==
  IF f \in {S_file, S_file2, S_file3} THEN S_slash ELSE Drop(f, Len(S_file))

(* C9: a dirpath in a relaxed file-URL form lists the directory it names:  *)
(* 'file:./relative' that of './relative', 'file:/abs' that of '/abs',     *)
(* 'file:', 'file://' and 'file:///' the root.                             *)
C9_RelaxedFormsResolve ==
  (Returned /\ call.dirpath.t = "string" /\ call.dirpath.v \in RelaxedForms) =>
    /\ call.P.err = NoErr
    /\ call.P.absdirpath = resolve(cwd, RelaxedTarget(call.dirpath.v))

(* The checks that come before the scheme of dirpath is looked at pass:    *)
(* options is of an accepted type, its encoding a string if given, its     *)
(* patterns compile.                                                       *)
EarlierChecksPass ==
  /\ OptionsTypeOk(call.options)
  /\ IsNullish(Given("encoding")) \/ Given("encoding").t = "string"
  /\ Given("match").t = "string" => Compiles(Given("match").v)
  /\ Given("exclude").t = "string" => Compiles(Given("exclude").v)

(* C10, as amended: when dirpath is a URL object of another protocol than  *)
(* 'file:' or a string '<letters>:...' not starting 'file:', or when       *)
(* options.rootDir is and dirpath itself resolves, and the checks made     *)
(* earlier pass, ls fails with a URIError, before any file system          *)
(* operation.                                                              *)
C10_BadSchemeIsURIError ==
  ( /\ Returned /\ EarlierChecksPass
    /\ \/ BadScheme(call.dirpath)
       \/ /\ BadScheme(Given("rootDir"))
          /\ ResolveDirpath(call.dirpath).err # "TypeError" ) =>
    /\ outcome = ErrorOutcome("URIError")
    /\ iolog = <<>>

(* A call on "/d" with an http: URL object as rootDir failed with a        *)
(* URIError.                                                               *)
C10_Witness ==
  /\ Returned /\ call.dirpath = Str(S_abs_d)
  /\ Given("rootDir") = Url(S_http, S_h, S_abs_d)
  /\ outcome = ErrorOutcome("URIError")

(* C10, as stated: whenever dirpath or options.rootDir is of another       *)
(* scheme, ls fails with a URIError.                                       *)
C10_AnyBadSchemeIsURIError ==
  (Returned /\ (BadScheme(call.dirpath) \/ BadScheme(Given("rootDir")))) =>
    outcome = ErrorOutcome("URIError")

(* C11: ls fails with a TypeError whenever options is an array or any      *)
(* value that is no object, no RegExp and not null or undefined (numbers,  *)
(* booleans, strings, functions, whatever their value); and with options   *)
(* an object, a RegExp, null or undefined, and the other arguments valid,  *)
(* it does not fail with a TypeError.                                      *)
C11_OptionsTypeChecked ==
  Returned =>
    /\ ~OptionsDocumented(call.options) => outcome = ErrorOutcome("TypeError")
    /\ ( /\ call.options \in {Undef, Null, EmptyOptions, RE_c}
         /\ call.dirpath = Str(S_abs_d) /\ IsDocumentedType(call.type) ) =>
         ~(outcome.k = "error" /\ outcome.cls = "TypeError")

(* The call went as it would have gone on other options: the same checks   *)
(* and resolved values and, for the synchronous variant, the same outcome. *)
SameOnOptions(options) ==
  /\ lsProlog(call.dirpath, options, call.type, ValidTypesOf(call.variant),
              cwd, defaultLsOptions) = call.P
  /\ call.variant = "sync" => SyncFrom(call.dirpath, options, call.type) = outcome

(* The options object that spells every default out, but rootDir; its      *)
(* match is the pattern /.+/ of the defaults.                              *)
SpelledDefaults ==
  Options(Str(S_utf8), Bool(FALSE), MakeDefaultLsOptions(cwd).match, Undef, Undef,
          Bool(FALSE), Bool(FALSE))

(* C12: a RegExp r given as options goes as the options object             *)
(* { match: r }, every other option at its default; null, undefined and {} *)
(* go as the options with every default spelled out: encoding 'utf8',      *)
(* recursive false, match /.+/, no exclude, absolute false, basename false. *)
C12_OptionsShorthands ==
  Returned =>
    /\ call.options.t = "regexp" =>
         SameOnOptions(Options(Undef, Undef, call.options, Undef, Undef, Undef, Undef))
    /\ call.options \in {Null, Undef, EmptyOptions} =>
         /\ SameOnOptions(SpelledDefaults)
         /\ call.P.err = NoErr =>
              /\ call.P.usedEncoding = S_utf8
              /\ ~Truthy(call.P.resOptions.recursive)
              /\ call.P.match.kind = "any" /\ ~call.P.match.global
              /\ call.P.exclude = Undef
              /\ ~Truthy(call.P.resOptions.absolute)
              /\ ~Truthy(call.P.resOptions.basename)

C12_Witness ==
  /\ Returned /\ call.options = RE_c /\ outcome.k = "list"
  /\ Len(outcome.v) = 1 /\ Len(EntryNames) = 2

(* The number a documented type argument stands for. *)
NumberOfType(type) ==
  IF IsTypeAll(type) THEN Num(LS_A)
  ELSE IF StrictEq(type, Num(LS_D)) \/ StrictEq(type, Str(S_LS_D)) THEN Num(LS_D)
  ELSE Num(LS_F)

(* The call went as it would have gone on another type: the same checks    *)
(* and resolved values; the same outcome for the synchronous variant, and  *)
(* for the asynchronous one, whose tasks read the type in the switch only, *)
(* the same result of the switch on every entry.                           *)
SameOnType(type) ==
  /\ lsProlog(call.dirpath, call.options, type, ValidTypesOf(call.variant),
              cwd, defaultLsOptions) = call.P
  /\ call.variant = "sync" => SyncFrom(call.dirpath, call.options, type) = outcome
  /\ call.variant = "async" =>
       \A isF \in BOOLEAN, isD \in BOOLEAN :
         TypeSwitch(call.type, isF, isD) = TypeSwitch(type, isF, isD)

(* C13: the type names 'LS_A', 'LS_D', 'LS_F' give the same result as the   *)
(* numbers 1, 2, 4, and the types 0, null and undefined the same as LS_A    *)
(* (1), for every directory and options, in both variants.                 *)
C13_TypeNamesAndNumbersAgree ==
  (Returned /\ IsDocumentedType(call.type)) => SameOnType(NumberOfType(call.type))

C13_Witness ==
  /\ Returned /\ call.type = Str(S_LS_D) /\ outcome.k = "list"
  /\ Len(outcome.v) = 1 /\ Len(EntryNames) = 2

(* What the probe of an entry finds: stat if it succeeds, else opendir     *)
(* (success: a directory; ENOTDIR: a regular file).                        *)
FoundFile(node) == IF StatOk(node) THEN node.kind = "file" ELSE Opendir(node) = "ENOTDIR"

FoundDir(node)  == IF StatOk(node) THEN node.kind = "dir" ELSE Opendir(node) = "ok"

(* The entry passes the type filter, as the claim words it. *)
PassesType(type, node) ==
  IF IsTypeAll(type) THEN FoundFile(node) \/ FoundDir(node)
  ELSE IF NumberOfType(type) = Num(LS_D) THEN FoundDir(node) /\ ~FoundFile(node)
  ELSE FoundFile(node) /\ ~FoundDir(node)

(* The patterns of the call keep no state between two tests. *)
StatelessPatterns ==
  /\ ~call.P.match.global
  /\ call.P.exclude # Undef => ~call.P.exclude.global

(* The entry passes such patterns. *)
PassesPatterns(e) ==
  /\ Matches(call.P.match, e)
  /\ call.P.exclude # Undef => ~Matches(call.P.exclude, e)

(* The string the call returns for the entry of that name. *)
Shown(name) ==
  encodeTo(<<Shape(call.P, join(call.P.absdirpath, name), cwd)>>, S_utf8,
           call.P.usedEncoding)[1]

(* C14: every element of a returned list is an entry that passes the type  *)
(* filter: under LS_D one found to be a directory and not a file, under    *)
(* LS_F (every call of lsFiles) a file and not a directory, under LS_A or  *)
(* 0 a file or a directory; an entry that is neither is in no list.  And   *)
(* the list holds exactly the entries of the wanted type that pass the     *)
(* patterns, for patterns that keep no state between tests (which entries  *)
(* a pattern with the g flag passes depends on its lastIndex).             *)
C14_TypeFilter ==
  (Returned /\ outcome.k = "list" /\ IsDocumentedType(call.type)) =>
    /\ \A x \in Elems(outcome.v) :
         \E name \in Elems(EntryNames) :
           /\ x = Shown(name)
           /\ PassesType(call.type, NodeAt(fsys, join(call.P.absdirpath, name)))
    /\ StatelessPatterns =>
         Elems(outcome.v) =
           { Shown(name) : name \in
               { n \in Elems(EntryNames) :
                   /\ PassesType(call.type, NodeAt(fsys, join(call.P.absdirpath, n)))
                   /\ PassesPatterns(join(call.P.absdirpath, n)) } }
    /\ call.fn = "lsFiles" => call.type = Num(LS_F)
    /\ call.fn = "lsDirs" => call.type = Num(LS_D)

C14_Witness ==
  /\ Returned /\ call.fn = "lsFiles" /\ outcome.k = "list" /\ Len(outcome.v) = 1
  /\ Len(EntryNames) = 2
  /\ \E n \in Elems(EntryNames) :
       NodeAt(fsys, join(call.P.absdirpath, n)).kind = "other"

(* The read of the listed directory, as the call made it. *)
TopLevelRead ==
  readdir(fsys, call.P.absdirpath, call.P.usedEncoding, Truthy(call.P.resOptions.recursive))

(* C15: a call ends in exactly one of a list, an error that reaches the    *)
(* caller, and null.  When the read of the listed directory fails with an  *)
(* Error, that error reaches the caller.  The result is null exactly when  *)
(* that read failed with a thrown value that is no Error: never after a    *)
(* read that succeeded, whatever the probes of the entries met.            *)
C15_ListErrorOrNull ==
  Returned =>
    /\ outcome.k \in {"list", "error", "null"}
    /\ (call.P.err = NoErr /\ TopLevelRead.err \notin {NoErr, "nonError"}) =>
         outcome = ErrorOutcome(TopLevelRead.err)
    /\ outcome.k = "null" <=> (call.P.err = NoErr /\ TopLevelRead.err = "nonError")

C15_Witness ==
  /\ Returned /\ call.variant = "async" /\ outcome.k = "null"
  /\ TopLevelRead.err = "nonError"

(* The call that has returned repeats the one before it: the same          *)
(* function, the same arguments (the same RegExp objects), the same        *)
(* working directory, the directory unchanged.                             *)
Repeated ==
  /\ Returned /\ prev # NoPrev
  /\ prev.call.fn = call.fn /\ prev.call.variant = call.variant
  /\ prev.call.dirpath = call.dirpath /\ prev.call.options = call.options
  /\ prev.call.type = call.type
  /\ prev.cwd = cwd

(* C16: a call made twice in a row with the same arguments, against an     *)
(* unchanged directory, returns the same list both times.                  *)
C16_RepeatedCallSameList ==
  (Repeated /\ prev.outcome.k = "list") => outcome = prev.outcome

(* The encoding option is given and is no encoding name the host knows: a  *)
(* value that is no string, or a name Buffer.isEncoding refuses (blanks    *)
(* around a name left aside).                                              *)
UnknownEncodingGiven ==
  /\ ~IsNullish(Given("encoding"))
  /\ Given("encoding").t = "string" => ~isEncoding(Trim(Given("encoding").v))

(* C17: a call of ls or lsFiles whose options.encoding is no encoding name *)
(* the host knows (an unknown name, or a value that is no string) fails    *)
(* with a TypeError, in both variants, and returns no list; the other      *)
(* arguments being valid.                                                  *)
C17_UnknownEncodingIsTypeError ==
  ( /\ Returned /\ call.options.t = "object" /\ UnknownEncodingGiven
    /\ call.dirpath.t = "string" /\ ~LooksLikeScheme(call.dirpath.v)
    /\ IsDocumentedType(call.type)
    /\ IsNullish(Given("match")) /\ IsNullish(Given("exclude"))
    /\ IsNullish(Given("rootDir")) ) =>
    outcome = ErrorOutcome("TypeError")

(* C18: whatever changes of the working directory and calls came before, a *)
(* call given no rootDir (and neither absolute nor basename) returns paths *)
(* relative to the working directory the process has at that call: each    *)
(* returned path, resolved from that directory, is an entry.               *)
C18_RelativeToCurrentWorkDir ==
  ( /\ Returned /\ outcome.k = "list"
    /\ IsNullish(Given("rootDir"))
    /\ ~Truthy(Given("absolute")) /\ ~Truthy(Given("basename")) ) =>
    \A x \in Elems(outcome.v) :
      \E name \in Elems(EntryNames) :
        resolve(cwd, Utf8Of(x)) = join(call.P.absdirpath, name)

(* C19: after any sequence of calls of ls, lsFiles and lsDirs, of both     *)
(* variants, with options an object, a RegExp, null or undefined and       *)
(* rootDir a string or a URL, every field of the exported defaultLsOptions *)
(* has the value it had when the module was loaded.                        *)
C19_DefaultsNeverChange ==
  defaultLsOptions = MakeDefaultLsOptions(S_slash)

C19_Witness ==
  /\ Returned /\ call.P.err = NoErr
  /\ Given("rootDir").t = "url"
  /\ call.P.resOptions.rootDir = Str(S_abs_d)
  /\ outcome.k = "list" /\ outcome.v # <<>>

(* The node of the entry of that name. *)
EntryNode(name) == NodeAt(fsys, join(call.P.absdirpath, name))

(* The call got as far as probing its entries: the checks passed, the read *)
(* of the directory and the decoding of the names succeeded, and the type  *)
(* is a documented one.                                                    *)
ProbesEntries ==
  /\ call.P.err = NoErr /\ TopLevelRead.err = NoErr
  /\ ~encodeToThrows(call.P.usedEncoding, S_utf8)
  /\ IsDocumentedType(call.type)

(* An entry on which stat fails and opendir fails with an Error other than *)
(* ENOTDIR.                                                                *)
Unreadable(node) == ~StatOk(node) /\ Opendir(node) = "Error"

(* C20: an entry is probed in two steps.  opendir is attempted on an entry *)
(* only after stat failed on it (never when stat succeeded); an entry on   *)
(* which stat fails is listed as a directory when opendir succeeds and as  *)
(* a regular file when opendir fails with ENOTDIR; when opendir fails with *)
(* another error the whole call fails with that error, the stat error its  *)
(* cause, and no list is returned; with no such entry the probes fail no   *)
(* call.                                                                   *)
C20_StatThenOpendir ==
  Returned =>
    /\ \A i \in 1..Len(iolog) :
         iolog[i].op = "opendir" =>
           /\ ~StatOk(NodeAt(fsys, iolog[i].path))
           /\ \E j \in 1..(i - 1) : iolog[j] = [op |-> "stat", path |-> iolog[i].path]
    /\ (ProbesEntries /\ outcome.k = "list" /\ StatelessPatterns) =>
         \A name \in Elems(EntryNames) :
           (~StatOk(EntryNode(name)) /\ PassesPatterns(join(call.P.absdirpath, name))) =>
             ( Shown(name) \in Elems(outcome.v) <=>
                 IF IsTypeAll(call.type)
                 THEN Opendir(EntryNode(name)) \in {"ok", "ENOTDIR"}
                 ELSE IF NumberOfType(call.type) = Num(LS_D)
                 THEN Opendir(EntryNode(name)) = "ok"
                 ELSE Opendir(EntryNode(name)) = "ENOTDIR" )
    /\ ProbesEntries =>
         IF \E name \in Elems(EntryNames) : Unreadable(EntryNode(name))
         THEN outcome = ErrorWithCause("Error", "stat")
         ELSE outcome.k = "list"

C20_Witness ==
  /\ Returned /\ outcome = ErrorWithCause("Error", "stat")
  /\ Len(EntryNames) = 2
  /\ \E i \in 1..Len(iolog) : iolog[i].op = "opendir"

(* The entries of the call whose probe ended without throwing. *)
Classified == {i \in 1..Len(tasks) : tasks[i].st = "done"}

(* C21, as stated: of the two flags of an entry never both are set, and    *)
(* both are unset only when an error kept the entry from being classified: *)
(* an entry whose probe raised no error (stat succeeded on it) is exactly  *)
(* one of file and directory.                                              *)
C21_ExactlyOneUnlessError ==
  \A i \in Classified :
    /\ ~(tasks[i].isF /\ tasks[i].isD)
    /\ StatOk(NodeAt(fsys, tasks[i].entry)) => (tasks[i].isF \/ tasks[i].isD)

(* C21, amended: of the two flags of an entry never both are set; both are *)
(* unset exactly when stat succeeded on an entry that is neither a regular *)
(* file nor a directory, or when stat failed and opendir threw a value     *)
(* that is no Error.                                                       *)
C21_AtMostOneKind ==
  \A i \in Classified :
    LET node == NodeAt(fsys, tasks[i].entry) IN
    /\ ~(tasks[i].isF /\ tasks[i].isD)
    /\ (~tasks[i].isF /\ ~tasks[i].isD) <=>
         \/ StatOk(node) /\ node.kind \notin {"file", "dir"}
         \/ ~StatOk(node) /\ Opendir(node) = "nonError"

C21_Witness ==
  /\ Returned /\ outcome.k = "list"
  /\ \E i, j \in Classified :
       /\ StatOk(NodeAt(fsys, tasks[i].entry))
       /\ ~tasks[i].isF /\ ~tasks[i].isD
       /\ tasks[j].isF

(* C22: every directory handle the fallback probe opened is closed when    *)
(* the call completes: when the promise of the asynchronous ls settles,    *)
(* and when the synchronous ls returns, which leaves no work pending.      *)
C22_HandlesClosedAtCompletion ==
  Returned => \A i \in 1..Len(tasks) : tasks[i].h # "open"

(* C23: the promise of the asynchronous ls does not settle while a task of *)
(* one of its entries is still pending: every task has run to its end,     *)
(* kept, dropped or failed, when the call completes, after a task failed   *)
(* as much as when none did.                                               *)
C23_SettlesAfterEveryTask ==
  (Returned /\ call.variant = "async") =>
    \A i \in 1..Len(tasks) : tasks[i].st \in {"done", "failed"}

(* C24: for a fixed directory and fixed arguments the list the             *)
(* asynchronous ls returns is the same in whatever order the stat, opendir *)
(* and close of its entries complete: it is the list of the run that       *)
(* completes them one entry after the other, in the order of the read.     *)
C24_SameListEveryInterleaving ==
  (Returned /\ call.variant = "async" /\ outcome.k = "list") =>
    outcome = SyncList(call.P, call.type, fsys, cwd, call.li0).outcome

(* C25: whether an entry is accepted, and the string it is given, depend   *)
(* on the entry's own path, its two flags and the resolved options alone:  *)
(* it is kept exactly when the type switch accepts its flags and its path  *)
(* has a match of match and none of exclude, whatever the flags of the     *)
(* patterns, the other entries, the order of the tests and earlier calls.  *)
C25_AcceptanceIsPerEntry ==
  \A i \in Classified :
    LET t == tasks[i] IN
    /\ t.keep = ( TypeSwitch(call.type, t.isF, t.isD).v /\ PassesPatterns(t.entry) )
    /\ t.keep => t.v = Shape(call.P, t.entry, cwd)

(* The joined paths of the entries the call kept. *)
KeptEntries == {tasks[i].entry : i \in {j \in Classified : tasks[j].keep}}

(* The options of the call with the output form set to the absolute one.   *)
AbsoluteForm(options) ==
  [options EXCEPT !.absolute = Bool(TRUE), !.basename = Undef, !.rootDir = Undef]

(* C26: match and exclude are tested on the joined absolute path of the    *)
(* entry, never on the string it is given: every kept entry's joined path  *)
(* passes the patterns, and the kept entries are those of the same call    *)
(* with absolute output, whichever of the three output forms is chosen and *)
(* whatever rootDir is.  (A pattern with the g flag keeps a position       *)
(* between tests; the order of the tests of the asynchronous ls then       *)
(* decides the list, and that list is left to C25.)                        *)
C26_PatternsTestJoinedPath ==
  ( /\ Returned /\ outcome.k = "list" /\ call.options.t = "object"
    /\ call.variant = "async" => StatelessPatterns ) =>
    LET abs == SyncFrom(call.dirpath, AbsoluteForm(call.options), call.type) IN
    /\ abs.k = "list"
    /\ KeptEntries = {Utf8Of(x) : x \in Elems(abs.v)}
    /\ Len(outcome.v) = Len(abs.v)
    /\ StatelessPatterns => \A e \in KeptEntries : PassesPatterns(e)

C26_Witness ==
  /\ Returned /\ outcome.k = "list" /\ call.variant = "async"
  /\ Given("match") = Str(S_d) /\ Given("basename") = Bool(TRUE)
  /\ Len(outcome.v) = 2
  /\ \A x \in Elems(outcome.v) : Find(S_d, x, 0) < 0

(* The call asked for neither the absolute nor the basename form. *)
RelativeForm == ~Truthy(Given("absolute")) /\ ~Truthy(Given("basename"))

(* rootDir as the call resolved it, made absolute. *)
ResolvedRootDir == resolve(cwd, call.P.resOptions.rootDir.v)

(* C27: with neither absolute nor basename, the string p of every kept     *)
(* entry, resolved against the resolved rootDir, is the joined absolute    *)
(* path of that entry; and when rootDir is the listed directory and        *)
(* recursive is false, the call returns what it returns with basename      *)
(* true.                                                                   *)
C27_RelativeLeadsBack ==
  (Returned /\ call.P.err = NoErr /\ RelativeForm) =>
    /\ \A i \in Classified :
         tasks[i].keep => resolve(ResolvedRootDir, tasks[i].v) = tasks[i].entry
    /\ ( /\ outcome.k = "list" /\ call.options.t = "object"
         /\ ResolvedRootDir = resolve(cwd, call.P.absdirpath)
         /\ ~Truthy(call.P.resOptions.recursive)
         /\ call.variant = "async" => StatelessPatterns ) =>
           outcome = SyncFrom(call.dirpath,
                              [call.options EXCEPT !.basename = Bool(TRUE)], call.type)

C27_Witness ==
  /\ Returned /\ outcome.k = "list" /\ RelativeForm
  /\ Given("rootDir") = Str(S_abs_d) /\ call.P.absdirpath = S_abs_d
  /\ Given("encoding") = Str(S_base64)
  /\ ~Truthy(call.P.resOptions.recursive)
  /\ Len(outcome.v) = 2
  /\ \E i \in Classified : tasks[i].keep /\ tasks[i].v # tasks[i].entry

(* The list the same call returns with the encoding left to its default. *)
Utf8List == SyncFrom(call.dirpath, [call.options EXCEPT !.encoding = Undef], call.type)

(* The call returned a list in an encoding other than utf8. *)
ReEncoded ==
  /\ Returned /\ outcome.k = "list" /\ call.options.t = "object"
  /\ call.P.usedEncoding # S_utf8
  /\ call.variant = "async" => StatelessPatterns

(* C28, as stated: the entries are sorted in utf8 and re-encoded after: a  *)
(* list returned in another encoding E is the list returned in utf8, each  *)
(* element re-encoded to E, in the same order.                             *)
C28_SortedThenReEncoded ==
  ReEncoded =>
    /\ Utf8List.k = "list"
    /\ outcome.v = encodeTo(Utf8List.v, S_utf8, call.P.usedEncoding)

(* C28, amended: a list returned in another encoding E holds the elements  *)
(* of the list returned in utf8, each re-encoded to E, in ascending order  *)
(* of the re-encoded strings.                                              *)
C28_ReEncodedThenSorted ==
  ReEncoded =>
    /\ Utf8List.k = "list"
    /\ outcome.v = Sort(encodeTo(Utf8List.v, S_utf8, call.P.usedEncoding))

C28_Witness ==
  /\ ReEncoded /\ call.P.usedEncoding = S_base64
  /\ Len(outcome.v) = 2
  /\ outcome.v # encodeTo(Utf8List.v, S_utf8, S_base64)

(* The pattern is a string that does not compile. *)
Uncompilable(v) == v.t = "string" /\ ~Compiles(v.v)

(* The options of the call, each pattern given as a string replaced by the *)
(* RegExp compiled from it.                                                *)
CompiledForm(options) ==
  [options EXCEPT !.match = IF @.t = "string" THEN resolveMatchExclude(@) ELSE @,
                  !.exclude = IF @.t = "string" THEN resolveMatchExclude(@) ELSE @]

(* C29: a string given as match or exclude behaves as the RegExp compiled  *)
(* from it: the call returns what it returns when handed that RegExp, and  *)
(* a string that does not compile fails the call with a SyntaxError before *)
(* any file system operation; a RegExp is used as it is; with match null   *)
(* or undefined the pattern is the default /.+/, with exclude null or      *)
(* undefined nothing is excluded.                                          *)
C29_StringAsCompiledPattern ==
  (Returned /\ call.options.t = "object" /\ ~TrimThrows(call.options)) =>
    IF Uncompilable(Given("match")) \/ Uncompilable(Given("exclude"))
    THEN outcome = ErrorOutcome("SyntaxError") /\ iolog = <<>>
    ELSE call.P.err = NoErr =>
      /\ Given("match").t = "regexp" => call.P.match = Given("match")
      /\ Given("exclude").t = "regexp" => call.P.exclude = Given("exclude")
      /\ IsNullish(Given("match")) => call.P.match = defaultLsOptions.match
      /\ IsNullish(Given("exclude")) => call.P.exclude = Undef
      /\ (call.variant = "async" => StatelessPatterns) =>
           outcome = SyncFrom(call.dirpath, CompiledForm(call.options), call.type)

(* C30: a call leaves the object handed in as options as it was: after    *)
(* the call, failed or not, every field of it has the value it had before, *)
(* rootDir given as a URL or a file: URL string and match and exclude      *)
(* given as strings included.                                              *)
C30_CallerOptionsUntouched ==
  Returned => call.optionsAfter = call.options

C30_Witness ==
  /\ Returned /\ outcome.k = "list" /\ call.options.t = "object"
  /\ Given("rootDir").t \in {"url", "string"}
  /\ call.P.resOptions.rootDir # Given("rootDir")
  /\ call.optionsAfter = call.options

====
